---- MODULE Spec2Model ----
(***************************************************************************)
(* Mount graph and path resolver of the kernel (kernel/src/fs/vfs.rs), the *)
(* file-system syscalls that drive it (kernel/src/syscall/fs.rs) and the   *)
(* ramfs module that is mounted into it (modules/ramfs).                   *)
(***************************************************************************)
EXTENDS Integers, Sequences, FiniteSets, TLC

VARIABLES
    vfs,        \* Seq of VirtualFS: every mount ever created, vfs[1] is VIRTUAL_FS
    pathcfg,    \* the calling process's PathConfig: [root, cwd]
    ret,        \* what the last call returned to its caller (Idle between calls)
    lkm         \* kernel/src/lkm: the kernel-VM arena, the page table of its region
                \* and the module manager

vars == <<vfs, pathcfg, ret, lkm>>

----------------------------------------------------------------------------
(* Bounds of the model *)

\* file systems that sys_mount may attach on top of the initial one
MaxMounts == 2
\* directories that sys_mkdirat may create
MaxCreate == 1
\* components of an operation's path (after an optional leading "/")
MaxComps == 2

(* Program constants *)

\* let mut follow_counter = 40;
FollowMax == 40
\* let depth_counter = 10;
DepthMax == 10
\* let mut content = [0u8; 256];
SymlinkBuf == 256

----------------------------------------------------------------------------
(* Paths.  A path string is a sequence of tokens: "/" is the separator, any *)
(* other token is a maximal run of non-separator characters.               *)

Sep == "/"

\* str::starts_with("/")
starts_with_slash(path) == Len(path) > 0 /\ path[1] = Sep

\* str::split("/"): the components between separators, "" for an empty one.
RECURSIVE split_from(_, _, _, _)
split_from(path, i, cur, acc) ==
    IF i > Len(path) THEN Append(acc, cur)
    ELSE IF path[i] = Sep THEN split_from(path, i + 1, "", Append(acc, cur))
    ELSE split_from(path, i + 1, path[i], acc)

split(path) == split_from(path, 1, "", <<>>)

\* The string whose components are parts (the inverse of split on inputs).
RECURSIVE join(_)
join(parts) ==
    IF Len(parts) = 0 THEN <<>>
    ELSE LET head == IF parts[1] = "" THEN <<>> ELSE <<parts[1]>>
         IN  IF Len(parts) = 1 THEN head
             ELSE head \o <<Sep>> \o join(Tail(parts))

\* Component names the operations are called with.
Names == {"", "..", "etc", "passwd", "mnt", "sub", "a", "b", "x", "dang", "r"}

\* Component names the state-changing syscalls are called with.
OpNames == {"", "..", "mnt", "sub", "b"}

\* Sequences of up to n components out of names
RECURSIVE PartSeqs(_, _)
PartSeqs(names, n) ==
    IF n = 0 THEN {<<>>}
    ELSE LET shorter == PartSeqs(names, n - 1)
         IN  shorter \cup {Append(s, c) : s \in {t \in shorter : Len(t) = n - 1}, c \in names}

\* Relative paths of up to n components, and the same behind a leading "/".
PathsUpTo(names, n) ==
    LET rel == PartSeqs(names, n) \ {<<>>}
    IN  {join(ps) : ps \in rel} \cup {join(<<"">> \o ps) : ps \in rel}

\* Paths given to path_resolve directly
Paths == PathsUpTo(Names, MaxComps)
\* Paths given to the state-changing syscalls
OpPaths == PathsUpTo(OpNames, 1)
\* Names sys_mkdirat is asked to create
MkdirPaths == {<<"sub">>}
\* Paths that climb, given to path_resolve while the mount graph changes
UpPaths == {join(<<"..">>), join(<<"..", "..">>), join(<<"sub", "..">>)}

----------------------------------------------------------------------------
(* Concrete file systems.  A FileSystem is a table of inodes; an inode is   *)
(* named by its index in the table of its file system.                     *)

Dir == "Dir"
File == "File"
SymLink == "SymLink"

\* Byte that is no valid UTF-8
BadByte == "\\xff"

\* An inode: extra.type_, extra.inode, parent, children, content and
\* extra.nlinks.  nlinks is a usize; the model keeps the two's-complement
\* reading of its 64 bits, so -1 stands for usize::MAX.
INodeRec(t, ino, parent, children, content, nlinks) ==
    [type_ |-> t, inode |-> ino, parent |-> parent, children |-> children,
     content |-> content, nlinks |-> nlinks]

\* A directory entry: a name and the inode it points to.  fs is the file
\* system holding that inode, 0 for the file system of the directory itself.
EntryIn(n, f, i) == [name |-> n, inode |-> i, fs |-> f]
Entry(n, i) == EntryIn(n, 0, i)

\* The SFS image the kernel boots from: SimpleFileSystem::open(device).
\*   /etc/passwd  /etc/a -> ..  /mnt  /a -> b  /b  /x -> /y  /y -> /x
\*   /dang -> nope  /r -> r/b
init_mount_sfs ==
    [kind |-> "sfs",
     inodes |-> <<
        INodeRec(Dir, 1, 1, <<Entry("etc", 2), Entry("mnt", 4), Entry("a", 5),
                              Entry("b", 6), Entry("x", 7), Entry("y", 8),
                              Entry("dang", 9), Entry("r", 10)>>, <<>>, 2),
        INodeRec(Dir, 2, 1, <<Entry("passwd", 3), Entry("a", 11)>>, <<>>, 2),
        INodeRec(File, 3, 2, <<>>, <<>>, 1),
        INodeRec(Dir, 4, 1, <<>>, <<>>, 2),
        INodeRec(SymLink, 5, 1, <<>>, <<"b">>, 1),
        INodeRec(File, 6, 1, <<>>, <<>>, 1),
        INodeRec(SymLink, 7, 1, <<>>, <<Sep, "y">>, 1),
        INodeRec(SymLink, 8, 1, <<>>, <<Sep, "x">>, 1),
        INodeRec(SymLink, 9, 1, <<>>, <<"nope">>, 1),
        INodeRec(SymLink, 10, 1, <<>>, <<"r", Sep, "b">>, 1),
        INodeRec(SymLink, 11, 2, <<>>, <<"..">>, 1)
     >>]

\* root.extra.inode = Arc::into_raw(..) as usize: the address of the root
\* inode, distinct for distinct file systems and never 0.
RamfsRootAddr(m) == 4096 * m

\* RamFSBehav::mount: a fresh file system holding only its root directory.
RamFSBehav_mount(m) ==
    [kind |-> "ramfs",
     inodes |-> <<INodeRec(Dir, RamfsRootAddr(m), 1, <<>>, <<>>, 1)>>]

\* Index of the root inode of every file system: FileSystem::root_inode
RootIdx == 1

----------------------------------------------------------------------------
(* Mount nodes and results *)

\* INodeContainer: a concrete inode under a mount.  vfs is the mount, fs the
\* file system holding the inode (the one of the mount unless an entry led
\* into another file system), inode its index there.
NodeIn(v, f, i) == [vfs |-> v, fs |-> f, inode |-> i]
Node(v, i) == NodeIn(v, v, i)
NoNode == Node(0, 0)

Ok(n) == [ok |-> TRUE, val |-> n, err |-> "OK"]
Err(e) == [ok |-> FALSE, val |-> NoNode, err |-> e]

\* PathResolveResult, and the Err side of Result<PathResolveResult>
IsDir(dir) == [kind |-> "IsDir", node |-> dir, parent |-> NoNode, name |-> "", err |-> "OK"]
IsFile(file, parent, name) ==
    [kind |-> "IsFile", node |-> file, parent |-> parent, name |-> name, err |-> "OK"]
NotExist(parent, name) ==
    [kind |-> "NotExist", node |-> NoNode, parent |-> parent, name |-> name, err |-> "OK"]
Failed(e) == [kind |-> "Err", node |-> NoNode, parent |-> NoNode, name |-> "", err |-> e]

\* The concrete inode behind a mount node
inode_of(n) == vfs[n.fs].filesystem.inodes[n.inode]
\* inode.metadata().inode and inode.metadata().type_
metadata_inode(n) == inode_of(n).inode
metadata_type(n) == inode_of(n).type_

Min(a, b) == IF a < b THEN a ELSE b
Max(a, b) == IF a > b THEN a ELSE b

\* The position of name among a directory's children, 0 when absent
RECURSIVE child_index(_, _, _)
child_index(children, name, i) ==
    IF i > Len(children) THEN 0
    ELSE IF children[i].name = name THEN i
    ELSE child_index(children, name, i + 1)

\* The file system holding the inode that the entry e of the directory n
\* points to
entry_fs(n, e) == IF e.fs = 0 THEN n.fs ELSE e.fs

\* INode::find of the concrete file system (LockedINode::find)
inode_find(n, name) ==
    LET file == inode_of(n)
    IN  IF file.type_ # Dir THEN Err("NotDir")
        ELSE IF name = "." THEN Ok(n)
        ELSE IF name = ".." THEN Ok(NodeIn(n.vfs, n.fs, file.parent))
        ELSE LET k == child_index(file.children, name, 1)
             IN  IF k = 0 THEN Err("EntryNotFound")
                 ELSE Ok(NodeIn(n.vfs, entry_fs(n, file.children[k]),
                                file.children[k].inode))

\* INode::read_at(offset, buf) of the boot file system, as resolve_symbol
\* calls it, with a buffer of buflen bytes: the bytes read
inode_read_at(n, offset, buflen) ==
    LET file == inode_of(n)
        len == Len(file.content)
    IN  IF file.type_ = Dir THEN [ok |-> FALSE, data |-> <<>>, err |-> "IsDir"]
        ELSE [ok |-> TRUE, err |-> "OK",
              data |-> SubSeq(file.content, Min(offset, len) + 1, Min(offset + buflen, len))]

\* str::from_utf8(..).is_ok()
from_utf8_ok(bytes) == \A i \in 1..Len(bytes) : bytes[i] # BadByte

\* VirtualFS::root_inode
root_inode(m) == Node(m, RootIdx)

\* INodeContainer::overlaid_mount_point
overlaid_mount_point(n) ==
    LET inode_id == metadata_inode(n)
    IN  IF inode_id \in DOMAIN vfs[n.vfs].mountpoints
        THEN root_inode(vfs[n.vfs].mountpoints[inode_id])
        ELSE n

\* A faulty is_root_inode: compares with the root of the initial file system
\* instead of the root of the node's own mount
is_root_inode_of_initial_fs(n) == metadata_inode(Node(1, RootIdx)) = metadata_inode(n)

\* INodeContainer::is_root_inode
is_root_inode(n) == metadata_inode(Node(n.vfs, RootIdx)) = metadata_inode(n)

\* PathConfig::has_reached_root
has_reached_root(cfg, current) ==
    /\ current.vfs = cfg.root.vfs
    /\ metadata_inode(cfg.root) = metadata_inode(current)

\* INodeContainer::find: a one-level lookup
RECURSIVE find(_, _, _)
find(self, root, name) ==
    IF name = "" \/ name = "." THEN Ok(self)
    ELSE IF name = ".." THEN
        IF root THEN Ok(self)
        ELSE IF is_root_inode(self) THEN
            IF vfs[self.vfs].self_mountpoint # NoNode
            THEN find(vfs[self.vfs].self_mountpoint, root, "..")
            ELSE Ok(self)
        ELSE inode_find(self, name)
    ELSE LET r == inode_find(self, name)
         IN  IF r.ok THEN Ok(overlaid_mount_point(r.val)) ELSE r

----------------------------------------------------------------------------
(* Path resolution.  The counters travel with the call: follow is the      *)
(* follow_counter behind the &mut, deepest records the deepest level of    *)
(* nested expansion at which a symlink was read (0: none read).            *)

Counters(follow, deepest) == [follow |-> follow, deepest |-> deepest]

\* What a resolving function hands back: its result, the counters after it,
\* and beside them whether the result is IsDir, IsFile
Out(r, c) ==
    [r |-> r, c |-> c, isdir |-> r.kind = "IsDir", isfile |-> r.kind = "IsFile"]

RECURSIVE resolve_path(_, _, _, _, _)
RECURSIVE resolve_symbol(_, _, _, _, _)
RECURSIVE resolve_symbol_recursively(_, _, _, _, _)
RECURSIVE resolve_parts(_, _, _, _, _, _)

\* A faulty resolve_symbol: still reads a symlink when no follow is left
resolve_symbol_one_more(cfg, cwd, symbol, c, depth_counter) ==
    LET reads == depth_counter # 0 /\ c.follow >= 0
        c1 == Counters(c.follow - 1, Max(c.deepest, DepthMax - depth_counter + 1))
        rd == inode_read_at(symbol, 0, SymlinkBuf)
    IN  CASE ~reads -> Out(Failed("SymLoop"), c)
          [] reads /\ ~rd.ok -> Out(Failed(rd.err), c1)
          [] reads /\ rd.ok /\ ~from_utf8_ok(rd.data) -> Out(Failed("NotDir"), c1)
          [] OTHER -> resolve_path(cfg, cwd, rd.data, c1, depth_counter - 1)

\* A faulty resolve_symbol: resolves the text of the link from the caller's
\* cwd instead of the directory holding the link
resolve_symbol_from_cwd(cfg, cwd, symbol, c, depth_counter) ==
    LET reads == depth_counter # 0 /\ c.follow > 0
        c1 == Counters(c.follow - 1, Max(c.deepest, DepthMax - depth_counter + 1))
        rd == inode_read_at(symbol, 0, SymlinkBuf)
    IN  CASE ~reads -> Out(Failed("SymLoop"), c)
          [] reads /\ ~rd.ok -> Out(Failed(rd.err), c1)
          [] reads /\ rd.ok /\ ~from_utf8_ok(rd.data) -> Out(Failed("NotDir"), c1)
          [] OTHER -> resolve_path(cfg, cfg.cwd, rd.data, c1, depth_counter - 1)

\* PathConfig::resolve_symbol: resolves a symlink by one layer
resolve_symbol(cfg, cwd, symbol, c, depth_counter) ==
    LET reads == depth_counter # 0 /\ c.follow > 0
        c1 == Counters(c.follow - 1, Max(c.deepest, DepthMax - depth_counter + 1))
        rd == inode_read_at(symbol, 0, SymlinkBuf)
    IN  CASE ~reads -> Out(Failed("SymLoop"), c)
          [] reads /\ ~rd.ok -> Out(Failed(rd.err), c1)
          [] reads /\ rd.ok /\ ~from_utf8_ok(rd.data) -> Out(Failed("NotDir"), c1)
          [] OTHER -> resolve_path(cfg, cwd, rd.data, c1, depth_counter - 1)

\* The match on resolve_result in the while loop of resolve_symbol_recursively:
\* an IsFile that is a symlink again goes round the loop, where its name is
\* replaced before it can be returned; anything else ends the loop as it is.
resolve_symbol_match(cfg, resolve_result, depth_counter) ==
    IF resolve_result.isfile /\ metadata_type(resolve_result.r.node) = SymLink
    THEN resolve_symbol_recursively(cfg, resolve_result.r.parent, resolve_result.r.node,
                                    resolve_result.c, depth_counter)
    ELSE resolve_result

\* PathConfig::resolve_symbol_recursively
resolve_symbol_recursively(cfg, cwd, symbol, c, depth_counter) ==
    CASE metadata_type(symbol) = Dir -> Out(IsDir(symbol), c)
      [] metadata_type(symbol) \notin {Dir, SymLink} -> Out(IsFile(symbol, cwd, ""), c)
      [] OTHER ->
            resolve_symbol_match(cfg, resolve_symbol(cfg, cwd, symbol, c, depth_counter),
                                 depth_counter)

\* A faulty last part: a missing entry is reported with the caller's root as
\* its parent
resolve_last_part_root_parent(cfg, cwd, last_part) ==
    LET next == find(cwd, has_reached_root(cfg, cwd), last_part)
    IN  IF next.ok THEN
            IF metadata_type(next.val) = Dir THEN IsDir(next.val)
            ELSE IsFile(next.val, cwd, last_part)
        ELSE IF next.err = "EntryNotFound" THEN NotExist(cfg.root, last_part)
        ELSE Failed(next.err)

\* The last component of resolve_path
resolve_last_part(cfg, cwd, last_part) ==
    LET next == find(cwd, has_reached_root(cfg, cwd), last_part)
    IN  IF next.ok THEN
            IF metadata_type(next.val) = Dir THEN IsDir(next.val)
            ELSE IsFile(next.val, cwd, last_part)
        ELSE IF next.err = "EntryNotFound" THEN NotExist(cwd, last_part)
        ELSE Failed(next.err)

\* A faulty match on symlink_solve_result: the errors of its two failing arms
\* exchanged
resolve_mid_match_swapped(cfg, parts, i, symlink_solve_result, depth_counter) ==
    CASE symlink_solve_result.isdir ->
            resolve_parts(cfg, symlink_solve_result.r.node, parts, i + 1,
                          symlink_solve_result.c, depth_counter)
      [] symlink_solve_result.isfile ->
            Out(Failed("EntryNotFound"), symlink_solve_result.c)
      [] symlink_solve_result.r.kind = "NotExist" ->
            Out(Failed("NotDir"), symlink_solve_result.c)
      [] OTHER -> symlink_solve_result

\* The match on symlink_solve_result in the loop of resolve_path over mid_part
resolve_mid_match(cfg, parts, i, symlink_solve_result, depth_counter) ==
    CASE symlink_solve_result.isdir ->
            resolve_parts(cfg, symlink_solve_result.r.node, parts, i + 1,
                          symlink_solve_result.c, depth_counter)
      [] symlink_solve_result.isfile ->
            Out(Failed("NotDir"), symlink_solve_result.c)
      [] symlink_solve_result.r.kind = "NotExist" ->
            Out(Failed("EntryNotFound"), symlink_solve_result.c)
      [] OTHER -> symlink_solve_result

\* The components of resolve_path from parts[i] on: the loop over mid_part,
\* then the last part
resolve_parts(cfg, cwd, parts, i, c, depth_counter) ==
    LET next == find(cwd, has_reached_root(cfg, cwd), parts[i])
    IN  CASE i = Len(parts) -> Out(resolve_last_part(cfg, cwd, parts[i]), c)
          [] i < Len(parts) /\ parts[i] = "" ->
                resolve_parts(cfg, cwd, parts, i + 1, c, depth_counter)
          [] i < Len(parts) /\ parts[i] # "" /\ ~next.ok -> Out(Failed(next.err), c)
          [] OTHER ->
                resolve_mid_match(cfg, parts, i,
                    resolve_symbol_recursively(cfg, cwd, next.val, c, depth_counter),
                    depth_counter)

\* A faulty resolve_path: begins at the supplied cwd also for a path that
\* starts with "/"
resolve_path_from_cwd(cfg, cwd, path, c, depth_counter) ==
    IF metadata_type(cwd) # Dir THEN Out(Failed("NotDir"), c)
    ELSE resolve_parts(cfg, cwd, split(path), 1, c, depth_counter)

\* PathConfig::resolve_path
resolve_path(cfg, cwd, path, c, depth_counter) ==
    IF ~starts_with_slash(path) /\ metadata_type(cwd) # Dir THEN Out(Failed("NotDir"), c)
    ELSE resolve_parts(cfg, IF starts_with_slash(path) THEN cfg.root ELSE cwd,
                       split(path), 1, c, depth_counter)

\* The end of path_resolve: the last symlink is resolved if asked for
resolve_last_symbol_of(cfg, r, resolve_last_symbol) ==
    IF resolve_last_symbol /\ r.isfile
    THEN resolve_symbol_recursively(cfg, r.r.parent, r.r.node, r.c, DepthMax)
    ELSE r

\* PathConfig::path_resolve, with the counters it ended with
path_resolve_counted(cfg, cwd, path, resolve_last_symbol) ==
    resolve_last_symbol_of(cfg, resolve_path(cfg, cwd, path, Counters(FollowMax, 0), DepthMax),
                           resolve_last_symbol)

\* PathConfig::path_resolve
path_resolve(cfg, cwd, path, resolve_last_symbol) ==
    path_resolve_counted(cfg, cwd, path, resolve_last_symbol).r

----------------------------------------------------------------------------
(* The calls *)

\* What a call hands back.  res and c are the PathResolveResult and counters
\* of the call's path resolution; node is the directory a mount was attached
\* to; had is the child mount its inode id was a key of before (0: none);
\* new is the mount that was created (0: none).
Return(op, path, follow, err, o, node, had, new) ==
    [op |-> op, path |-> path, follow |-> follow, err |-> err, res |-> o.r, c |-> o.c,
     node |-> node, had |-> had, new |-> new]

Idle == Return("idle", <<>>, FALSE, "OK", Out(Failed("OK"), Counters(FollowMax, 0)), NoNode, 0, 0)

\* File-system types registered with the FileSystemManager
fstypes == {"ramfs"}
\* File-system types sys_mount is called with
FsTypeArgs == {"ramfs", "nofs"}

\* BTreeMap::insert(key, value)
insert(map, key, value) ==
    [k \in DOMAIN map \cup {key} |-> IF k = key THEN value ELSE map[k]]

\* The empty BTreeMap
EmptyMap == [k \in {} |-> 0]

\* VirtualFS { filesystem, mountpoints, self_mountpoint }
VirtualFS(fs, mountpoints, self_mountpoint) ==
    [filesystem |-> fs, mountpoints |-> mountpoints, self_mountpoint |-> self_mountpoint]

\* A faulty mount: records the new mount's own root as its attachment point
mount_self_attached(self, fs) ==
    LET new_fs == VirtualFS(fs, EmptyMap, Node(Len(vfs) + 1, RootIdx))
        inode_id == metadata_inode(self)
        self_fs == vfs[self.vfs]
    IN  Append([vfs EXCEPT ![self.vfs].mountpoints =
                    insert(self_fs.mountpoints, inode_id, Len(vfs) + 1)],
               new_fs)

\* INodeContainer::mount: the mount graph after mounting fs at self
mount(self, fs) ==
    LET new_fs == VirtualFS(fs, EmptyMap, self)
        inode_id == metadata_inode(self)
        self_fs == vfs[self.vfs]
    IN  Append([vfs EXCEPT ![self.vfs].mountpoints =
                    insert(self_fs.mountpoints, inode_id, Len(vfs) + 1)],
               new_fs)

\* Directories created so far by sys_mkdirat
RECURSIVE inode_count(_)
inode_count(m) ==
    IF m = 0 THEN 0 ELSE Len(vfs[m].filesystem.inodes) + inode_count(m - 1)

Created == inode_count(Len(vfs)) - Len(init_mount_sfs.inodes) - (Len(vfs) - 1)

\* The inode id a file system gives a created inode: ramfs leaves
\* extra.inode 0; SFS uses the number of the block it allocates.
new_inode_id(fs) == IF fs.kind = "ramfs" THEN 0 ELSE Len(fs.inodes) + 1

\* The nlinks a file system gives a created inode: ramfs leaves it 0
new_nlinks(fs) == IF fs.kind = "ramfs" THEN 0 ELSE 1

\* INode::create(name, type_, mode) of the concrete file system
\* (LockedINode::create): the file system after it, or the error
inode_create(n, name, type_) ==
    LET fs == vfs[n.fs].filesystem
        file == fs.inodes[n.inode]
    IN  IF file.type_ # Dir THEN [ok |-> FALSE, fs |-> fs, err |-> "NotDir"]
        ELSE IF name = "." \/ name = ".." \/ child_index(file.children, name, 1) # 0
        THEN [ok |-> FALSE, fs |-> fs, err |-> "EntryExist"]
        ELSE LET idx == Len(fs.inodes) + 1
                 temp_file == INodeRec(type_, new_inode_id(fs), n.inode, <<>>, <<>>,
                                       new_nlinks(fs))
             IN  [ok |-> TRUE, err |-> "OK",
                  fs |-> [fs EXCEPT
                            !.inodes = Append([fs.inodes EXCEPT ![n.inode].children =
                                                  Append(@, Entry(name, idx))],
                                              temp_file)]]

----------------------------------------------------------------------------
(* Kernel-VM arena (kernel/src/lkm/kernelvm.rs)                            *)
(*                                                                          *)
(* A usize is held as a two-digit number in base PAGE_SIZE, [pages, rem],   *)
(* standing for pages * PAGE_SIZE + rem.  An address of the arena is held   *)
(* relative to KSEG2_START: [pages |-> p, rem |-> r] is the address         *)
(* KSEG2_START + p * PAGE_SIZE + r (modulo 2^64).                           *)

\* rcore_memory::PAGE_SIZE
PAGE_SIZE == 4096

\* The size of the reserved region in pages: 0x8000000000 bytes from KSEG2_START
RegionPages == 134217728

\* The pages between KSEG2_START and the top of the 64-bit address space
TopPages == 402653184

\* allocations and spaces that may be requested from the arena
MaxAllocs == 3

\* areas that may be added to one VirtualSpace
MaxAreas == 2

usize(pages, rem) == [pages |-> pages, rem |-> rem]

\* usize addition
plus(a, b) == usize(a.pages + b.pages + (a.rem + b.rem) \div PAGE_SIZE,
                    (a.rem + b.rem) % PAGE_SIZE)

\* x - x % PAGE_SIZE
page_floor(x) == usize(x.pages, 0)

\* The pages of Page::range_of(start, end) for page-aligned start and end
range_of(start, end) == {p \in start.pages .. end.pages - 1 : TRUE}

\* (size + PAGE_SIZE - 1) / PAGE_SIZE
required_pages(size) == plus(size, usize(0, PAGE_SIZE - 1)).pages

\* self.last_page * PAGE_SIZE + KSEG2_START leaves the 64 bits of a usize
alloc_overflows(vmm) == vmm.last_page >= TopPages

\* No result of a call
NoAddr == usize(0 - 1, 0)

\* Option<(usize, usize)>
Some(addr, size) == [some |-> TRUE, addr |-> addr, size |-> size]
None == [some |-> FALSE, addr |-> NoAddr, size |-> NoAddr]

\* LinearManager::new
LinearManager == [last_page |-> 0]

\* LinearManager::alloc
LinearManager_alloc(vmm, size) ==
    [vmm |-> [vmm EXCEPT !.last_page = @ + required_pages(size)],
     ret |-> Some(usize(vmm.last_page, 0), usize(required_pages(size), 0))]

\* LinearManager::free: does nothing
LinearManager_free(vmm, target) == vmm

\* usize subtraction, for a >= b
minus(a, b) ==
    IF a.rem >= b.rem THEN usize(a.pages - b.pages, a.rem - b.rem)
    ELSE usize(a.pages - b.pages - 1, a.rem + PAGE_SIZE - b.rem)

\* VirtualArea { start, end }, the attributes left out
VirtualAreaRec(start, end) == [start |-> start, end |-> end]

\* VirtualSpace { start, size, areas }
VirtualSpaceRec(start, size, areas) == [start |-> start, size |-> size, areas |-> areas]

\* VirtualArea::new: the area, page-aligned; its pages are mapped by the caller below
VirtualArea_new(page_addr, size) ==
    VirtualAreaRec(page_floor(page_addr),
                   page_floor(plus(plus(page_addr, size), usize(0, PAGE_SIZE - 1))))

\* The pages of an area
area_pages(v) == range_of(v.start, v.end)

\* The pages of every area of a VirtualSpace
space_pages(s) == UNION {area_pages(s.areas[i]) : i \in 1..Len(s.areas)}

----------------------------------------------------------------------------
(* Module manager (kernel/src/lkm/manager.rs, kernel/src/lkm/structs.rs)   *)
(*                                                                          *)
(* An ELF image is held by what init_module reads of it: elf (it parses),   *)
(* is32, type, info (the .rcore-lkm metadata: its section is "none" when    *)
(* the section is missing and "bad" when ModuleInfo::parse gives None),     *)
(* program (the program headers), has_dynsym and has_dynamic (the sections  *)
(* are there), dynsym, and the entries of the three relocation sections     *)
(* jmprel, rel and rela.  Offsets and sizes inside an image are byte        *)
(* counts.                                                                  *)

\* a byte count as a usize
bytes(n) == usize(n \div PAGE_SIZE, n % PAGE_SIZE)

\* a < b for usize
less(a, b) == a.pages < b.pages \/ (a.pages = b.pages /\ a.rem < b.rem)

\* a <= b < c for usize
within(a, b, c) == ~less(b, a) /\ less(b, c)

\* ModuleSymbol { name, loc }
ModuleSymbol(name, loc) == [name |-> name, loc |-> loc]

\* Option<usize>
Found(loc) == [some |-> TRUE, loc |-> loc]
NotFound == [some |-> FALSE, loc |-> NoAddr]

\* lkm_api_pong as usize: a function of the kernel text, which lies above the region
lkm_api_pong == usize(RegionPages + 256, 0)

\* ModuleManager::init_stub_symbols
init_stub_symbols == <<ModuleSymbol("lkm_api_pong", lkm_api_pong)>>

\* ModuleManager::init
ModuleManager == [stub_symbols |-> init_stub_symbols, loaded_modules |-> <<>>]

\* The first symbol of the name in a list of symbols
first_symbol(symbols, name) ==
    LET hits == {i \in 1..Len(symbols) : symbols[i].name = name}
    IN  IF hits = {} THEN NotFound
        ELSE Found(symbols[CHOOSE i \in hits : \A j \in hits : i <= j].loc)

\* ModuleManager::find_symbol_in_deps, the loaded modules from the k-th down
RECURSIVE find_symbol_in_modules(_, _, _)
find_symbol_in_modules(loaded_modules, symbol, k) ==
    IF k = 0 THEN NotFound
    ELSE IF first_symbol(loaded_modules[k].exported_symbols, symbol).some
    THEN first_symbol(loaded_modules[k].exported_symbols, symbol)
    ELSE find_symbol_in_modules(loaded_modules, symbol, k - 1)

\* ModuleManager::find_symbol_in_deps
find_symbol_in_deps(self, symbol) ==
    IF first_symbol(self.stub_symbols, symbol).some
    THEN first_symbol(self.stub_symbols, symbol)
    ELSE find_symbol_in_modules(self.loaded_modules, symbol, Len(self.loaded_modules))

\* ModuleManager::get_symbol_loc with find_dependency = true; the index counts from 0
get_symbol_loc(self, symbol_index, dynsym, base) ==
    IF dynsym[symbol_index + 1].shndx = 0
    THEN find_symbol_in_deps(self, dynsym[symbol_index + 1].name)
    ELSE Found(plus(base, bytes(dynsym[symbol_index + 1].value)))

\* The program headers of type Load
loads(image) == {i \in 1..Len(image.program) : image.program[i].type = "Load"}

\* min_addr of init_module before it is page-aligned, for an image with a Load header
min_addr(image) ==
    CHOOSE a \in {image.program[i].virtual_addr : i \in loads(image)} :
        \A i \in loads(image) : a <= image.program[i].virtual_addr

\* off_start: the offset of the first Load header of the least address
off_start(image) ==
    image.program[CHOOSE i \in loads(image) :
                      /\ image.program[i].virtual_addr = min_addr(image)
                      /\ \A j \in loads(image) :
                             image.program[j].virtual_addr = min_addr(image) => i <= j].offset

\* max_addr of init_module before it is page-aligned
max_addr(image) ==
    CHOOSE a \in {image.program[i].virtual_addr + image.program[i].mem_size : i \in loads(image)} :
        \A i \in loads(image) : a >= image.program[i].virtual_addr + image.program[i].mem_size

\* x & neg(PAGE_SIZE)
page_mask(x) == (x \div PAGE_SIZE) * PAGE_SIZE

\* map_len of init_module; without a Load header max_addr - min_addr is
\* 0 - 0xffff_ffff_ffff_f000, which overflows
map_len(image) ==
    IF loads(image) = {} THEN PAGE_SIZE
    ELSE page_mask(max_addr(image) + PAGE_SIZE - 1) - page_mask(min_addr(image))
             + page_mask(off_start(image))

\* What the last call on the arena or the module manager gave back
LkmResult(op, err, val) == [op |-> op, err |-> err, val |-> val]
LkmIdle == LkmResult("idle", "OK", None)

\* The processors that call into a loaded module, and what one of them is
\* doing: op, the call of LoadedModule::grab or the drop of a ModuleGuard it
\* is in, pc its place there, tmp the use count it read, guards the
\* ModuleGuards it holds, ops the calls it has begun
Cpus == {1, 2}
CpuIdle == [pc |-> "idle", op |-> "none", tmp |-> 0, guards |-> 0, ops |-> 0]

\* A processor in LockedINode::link(self, name, other) of ramfs: pc its place
\* there, order the locks as lockMultiple takes them, got how many of them
\* it holds, ops the calls it has begun
LinkIdle ==
    [pc |-> "idle", self |-> 0, other |-> 0, name |-> "", order |-> <<>>, got |-> 0,
     ops |-> 0]

\* The arena, the page table and the module manager after boot
\* What file_like.poll() gives: Err, or the PollStatus
PollStatus(read, write, error) == [err |-> FALSE, read |-> read, write |-> write, error |-> error]
PollErr == [err |-> TRUE, read |-> FALSE, write |-> FALSE, error |-> FALSE]
Quiet == PollStatus(FALSE, FALSE, FALSE)

\* The descriptors of the process that polls
PollFds == {0, 1}

\* No call of sys_poll under way
NoPoll == [state |-> "idle"]

\* The process of the polling thread with descriptors 0 and 1 open and
\* nothing to report on them, and crate::trap::uptime_msec() at 0. Time is
\* counted in units of 2^30 ms.
PollInit ==
    [files |-> PollFds, status |-> [fd \in PollFds |-> Quiet], uptime_msec |-> 0,
     call |-> NoPoll]

\* A process with no file open: files is proc.files, closed the handle ids
\* the drivers' close has been called with, in order, calls the system calls
\* made, res what the last of them gave
ProcInit == [files |-> <<>>, closed |-> <<>>, calls |-> 0, res |-> [op |-> "idle"]]

\* A RamFSINode with its extra.type_ and its content, and what read_at gave
RamFile(type_, content) == [type_ |-> type_, content |-> content, res |-> [op |-> "idle"]]

\* The processors that enter _start; cpu::id() of the boot processor is 0
StartCpus == {0, 1, 2}

\* Where a processor is: the function it runs and the calls of it completed
At(fn, n) == [fn |-> fn, n |-> n]

\* static AP_CAN_INIT: AtomicBool = ATOMIC_BOOL_INIT, and every processor at
\* the entry point
StartInit == [at |-> [c \in StartCpus |-> At("_start", 0)], AP_CAN_INIT |-> FALSE]

LkmInit ==
    [vmm |-> LinearManager,     \* KERNELVM_MANAGER
     calls |-> 0,               \* calls of alloc made so far
     live |-> <<>>,             \* ranges alloc gave out that free has not been given
     frees |-> <<>>,            \* ranges given to free
     page_table |-> {},         \* the mapped pages of the region
     shootdowns |-> <<>>,       \* ranges of the TLB shootdowns of the last call
     spaces |-> <<>>,           \* the VirtualSpace objects alive
     manager |-> ModuleManager, \* LKM_MANAGER
     entered |-> <<>>,          \* the entry points of modules called so far
     dev_map |-> <<>>,          \* CDEV_MANAGER.dev_map, major |-> CharDev
     files |-> <<>>,            \* the files of the process
     module |-> [lock |-> 0, using_counts |-> 0],   \* a LoadedModule; lock: its holder
     cpus |-> [t \in Cpus |-> CpuIdle],
     links |-> [t \in Cpus |-> LinkIdle],
     fstypes |-> {"ramfs"},     \* FS_MANAGER.fstypes: the names registered
     start |-> StartInit,       \* the processors in _start, and AP_CAN_INIT
     poll |-> PollInit,         \* the thread in sys_poll, its files and the clock
     dents |-> <<>>,            \* what the calls of sys_getdents64 have returned
     proc |-> ProcInit,         \* proc.files by descriptor, and the calls of close
     ramfile |-> RamFile(File, <<>>),   \* an inode of ramfs and the last read_at of it
     res |-> LkmIdle]

\* A live allocation: what was asked for, what alloc gave, and whether a
\* VirtualSpace was made of it
Live(size, got, scoped) ==
    [req |-> size, addr |-> got.addr, size |-> got.size, scoped |-> scoped]

----------------------------------------------------------------------------
\* VirtualFS::init and PathConfig::init_root
Init ==
    /\ vfs = <<VirtualFS(init_mount_sfs, EmptyMap, NoNode)>>
    /\ pathcfg = [root |-> root_inode(1), cwd |-> root_inode(1)]
    /\ ret = Idle
    /\ lkm = LkmInit

\* Syscall::sys_mount
SysMount(target, fstype) ==
    /\ ret.op = "idle"
    /\ Len(vfs) <= MaxMounts
    /\ LET o == path_resolve_counted(pathcfg, pathcfg.cwd, target, FALSE)
       IN  CASE o.r.kind = "Err" ->
                  /\ ret' = Return("mount", target, FALSE, o.r.err, o, NoNode, 0, 0)
                  /\ UNCHANGED vfs
             [] o.r.kind = "NotExist" ->
                  /\ ret' = Return("mount", target, FALSE, "EntryNotFound", o, NoNode, 0, 0)
                  /\ UNCHANGED vfs
             [] o.r.kind = "IsFile" ->
                  /\ ret' = Return("mount", target, FALSE, "NotDir", o, NoNode, 0, 0)
                  /\ UNCHANGED vfs
             [] o.r.kind = "IsDir" ->
                  IF fstype \notin fstypes
                  THEN /\ ret' = Return("mount", target, FALSE, "InvalidParam", o, NoNode, 0, 0)
                       /\ UNCHANGED vfs
                  ELSE LET dir == o.r.node
                           keys == vfs[dir.vfs].mountpoints
                           had == IF metadata_inode(dir) \in DOMAIN keys
                                  THEN keys[metadata_inode(dir)] ELSE 0
                       IN  /\ vfs' = mount(dir, RamFSBehav_mount(Len(vfs) + 1))
                           /\ ret' = Return("mount", target, FALSE, "OK", o, dir, had,
                                            Len(vfs) + 1)
    /\ UNCHANGED <<pathcfg, lkm>>

\* Syscall::sys_chdir
SysChdir(path) ==
    /\ ret.op = "idle"
    /\ LET o == path_resolve_counted(pathcfg, pathcfg.cwd, path, TRUE)
       IN  CASE o.r.kind = "Err" ->
                  /\ ret' = Return("chdir", path, TRUE, o.r.err, o, NoNode, 0, 0)
                  /\ UNCHANGED pathcfg
             [] o.r.kind = "IsDir" ->
                  /\ pathcfg' = [pathcfg EXCEPT !.cwd = o.r.node]
                  /\ ret' = Return("chdir", path, TRUE, "OK", o, NoNode, 0, 0)
             [] OTHER ->
                  /\ ret' = Return("chdir", path, TRUE, "NotDir", o, NoNode, 0, 0)
                  /\ UNCHANGED pathcfg
    /\ UNCHANGED <<vfs, lkm>>

\* A process is given a new root: PathConfig.root is set to a directory the
\* process resolves; its cwd stays.
SetRoot(path) ==
    /\ ret.op = "idle"
    /\ LET o == path_resolve_counted(pathcfg, pathcfg.cwd, path, TRUE)
       IN  /\ o.r.kind = "IsDir"
           /\ o.r.node # pathcfg.root
           /\ pathcfg' = [pathcfg EXCEPT !.root = o.r.node]
           /\ ret' = Return("setroot", path, TRUE, "OK", o, NoNode, 0, 0)
    /\ UNCHANGED <<vfs, lkm>>

\* Syscall::sys_mkdirat with dirfd = AT_FDCWD
SysMkdirat(path) ==
    /\ ret.op = "idle"
    /\ Created < MaxCreate
    /\ LET o == path_resolve_counted(pathcfg, pathcfg.cwd, path, FALSE)
       IN  CASE o.r.kind = "Err" ->
                  /\ ret' = Return("mkdir", path, FALSE, o.r.err, o, NoNode, 0, 0)
                  /\ UNCHANGED vfs
             [] o.r.kind = "NotExist" ->
                  LET made == inode_create(o.r.parent, o.r.name, Dir)
                  IN  /\ vfs' = [vfs EXCEPT ![o.r.parent.fs].filesystem = made.fs]
                      /\ ret' = Return("mkdir", path, FALSE, made.err, o, NoNode, 0, 0)
             [] OTHER ->
                  /\ ret' = Return("mkdir", path, FALSE, "EntryExist", o, NoNode, 0, 0)
                  /\ UNCHANGED vfs
    /\ UNCHANGED <<pathcfg, lkm>>

\* INode::get_entry(id) of the concrete file system (LockedINode::get_entry)
get_entry(n, id) ==
    LET file == inode_of(n)
    IN  IF file.type_ # Dir THEN [ok |-> FALSE, name |-> "", err |-> "NotDir"]
        ELSE IF id = 0 THEN [ok |-> TRUE, name |-> ".", err |-> "OK"]
        ELSE IF id = 1 THEN [ok |-> TRUE, name |-> "..", err |-> "OK"]
        ELSE IF id - 1 <= Len(file.children)
        THEN [ok |-> TRUE, name |-> file.children[id - 1].name, err |-> "OK"]
        ELSE [ok |-> FALSE, name |-> "", err |-> "EntryNotFound"]

\* The test of find_name_by_child on the entry called name
queryback_is_child(self, child, name) ==
    LET found == find(self, FALSE, name)
        queryback == overlaid_mount_point(found.val)
    IN  /\ found.ok
        /\ queryback.vfs = child.vfs
        /\ metadata_inode(queryback) = metadata_inode(child)

\* INodeContainer::find_name_by_child, from the entry index on
RECURSIVE find_name_by_child(_, _, _)
find_name_by_child(self, child, index) ==
    LET name == get_entry(self, index)
    IN  IF ~name.ok THEN name
        ELSE IF name.name \in {".", ".."}
        THEN find_name_by_child(self, child, index + 1)
        ELSE IF ~find(self, FALSE, name.name).ok
        THEN [ok |-> FALSE, name |-> "", err |-> find(self, FALSE, name.name).err]
        ELSE IF queryback_is_child(self, child, name.name) THEN name
        ELSE find_name_by_child(self, child, index + 1)

\* PathConfig::force_resolve_parent
force_resolve_parent(cwd) == find(cwd, FALSE, "..").val

\* The string sys_getcwd gives for an unreachable cwd
Unreachable == <<"(unreachable)">>

\* Bytes of a name, of "/", of a string
NameLen(name) ==
    CASE name = Sep -> 1
      [] name \in {"a", "b", "x", "y", "r"} -> 1
      [] name \in {"etc", "mnt", "sub"} -> 3
      [] name = "dang" -> 4
      [] name = "passwd" -> 6
      [] name = "(unreachable)" -> 13
      [] OTHER -> Len(name)

RECURSIVE StrLen(_)
StrLen(s) == IF s = <<>> THEN 0 ELSE NameLen(s[1]) + StrLen(Tail(s))

\* The loop of sys_getcwd: from current_inode up to the process root, with
\* the names collected so far.  laps bounds the times round the loop the
\* model follows; a walk that needs more has not ended.
RECURSIVE getcwd_loop(_, _, _)
getcwd_loop(current_inode, path_parts, laps) ==
    LET current_inode_id == metadata_inode(current_inode)
        root_inode_id == metadata_inode(pathcfg.root)
        total_inode_id == metadata_inode(root_inode(1))
        parent == force_resolve_parent(current_inode)
        name == find_name_by_child(parent, current_inode, 0)
    IN  IF current_inode.vfs = pathcfg.root.vfs /\ current_inode_id = root_inode_id
        THEN [err |-> "OK", str |-> <<Sep>> \o join(path_parts)]
        ELSE IF pathcfg.root.vfs = 1 /\ current_inode_id = total_inode_id
        THEN [err |-> "OK", str |-> Unreachable]
        ELSE IF laps = 0 THEN [err |-> "loops", str |-> <<>>]
        ELSE IF ~name.ok THEN [err |-> name.err, str |-> <<>>]
        ELSE getcwd_loop(parent, <<name.name>> \o path_parts, laps - 1)

\* Lengths of the buffer sys_getcwd is called with
BufLens == {1, 64}

\* sys_getcwd with the path string built
getcwd_copy(len, walk) ==
    IF walk.err # "OK"
    THEN ret' = Return("getcwd", <<>>, FALSE, walk.err,
                       Out(Failed(walk.err), Counters(FollowMax, 0)), NoNode, 0, 0)
    ELSE IF StrLen(walk.str) + 1 > len
    THEN ret' = Return("getcwd", <<>>, FALSE, "ERANGE",
                       Out(Failed("OK"), Counters(FollowMax, 0)), NoNode, 0, 0)
    ELSE ret' = Return("getcwd", walk.str, FALSE, "OK",
                       Out(Failed("OK"), Counters(FollowMax, 0)), NoNode, 0, 0)

\* Syscall::sys_getcwd, the buffer being writable
SysGetcwd(len) ==
    /\ ret.op = "idle"
    /\ getcwd_copy(len, getcwd_loop(pathcfg.cwd, <<>>, inode_count(Len(vfs)) + 1))
    /\ UNCHANGED <<vfs, pathcfg, lkm>>

----------------------------------------------------------------------------
(* Directory operations of the concrete file systems.  They work on a table *)
(* t of mounts (the value of vfs, or what an earlier step of the same call  *)
(* made of it) and give back the table after them.  ramfs is translated     *)
(* from its source; the boot file system checks that both inodes are its    *)
(* own, keeps nlinks in step with the entries and reports a missing name.   *)

\* What an operation of a file system gives back: ok, or the error; halt is
\* "panic" when the kernel panicked in it, "deadlock" when it waits for a
\* lock for ever, "" when it returned
Done(t) == [ok |-> TRUE, err |-> "OK", halt |-> "", vfs |-> t]
Fail(t, e) == [ok |-> FALSE, err |-> e, halt |-> "", vfs |-> t]
Halt(t, h) == [ok |-> FALSE, err |-> h, halt |-> h, vfs |-> t]

\* The inode behind a node in the table t
ino(t, n) == t[n.fs].filesystem.inodes[n.inode]
kind_of(t, n) == t[n.fs].filesystem.kind

\* Vec::remove(index)
RemoveAt(s, k) == SubSeq(s, 1, k - 1) \o SubSeq(s, k + 1, Len(s))

\* The node the entry called name of the directory dir points to
DirEntryIn(t, dir, name) ==
    LET e == ino(t, dir).children[child_index(ino(t, dir).children, name, 1)]
    IN  NodeIn(dir.vfs, entry_fs(dir, e), e.inode)

\* The entry an inode of the directory dir gets for the inode other
entry_for(dir, name, other) ==
    EntryIn(name, IF other.fs = dir.fs THEN 0 ELSE other.fs, other.inode)

\* The table with the entry pushed to dir and other's nlinks one up
with_link(t, dir, name, other) ==
    LET t1 == [t EXCEPT ![dir.fs].filesystem.inodes[dir.inode].children =
                            Append(@, entry_for(dir, name, other))]
    IN  [t1 EXCEPT ![other.fs].filesystem.inodes[other.inode].nlinks = @ + 1]

\* INodeContainer::link over INode::link (LockedINode::link)
link(t, dir, name, other) ==
    IF kind_of(t, dir) = "ramfs" THEN
        IF kind_of(t, other) # "ramfs" THEN Halt(t, "panic")
        ELSE IF dir.fs = other.fs /\ dir.inode = other.inode THEN Halt(t, "deadlock")
        ELSE IF ino(t, dir).type_ # Dir THEN Fail(t, "NotDir")
        ELSE IF ino(t, other).type_ = Dir THEN Fail(t, "IsDir")
        ELSE IF child_index(ino(t, dir).children, name, 1) # 0 THEN Fail(t, "EntryExist")
        ELSE Done(with_link(t, dir, name, other))
    ELSE
        IF other.fs # dir.fs THEN Fail(t, "NotSameFs")
        ELSE IF ino(t, dir).type_ # Dir THEN Fail(t, "NotDir")
        ELSE IF ino(t, other).type_ = Dir THEN Fail(t, "IsDir")
        ELSE IF child_index(ino(t, dir).children, name, 1) # 0 THEN Fail(t, "EntryExist")
        ELSE Done(with_link(t, dir, name, other))

\* INodeContainer::unlink over INode::unlink (LockedINode::unlink).  wraps
\* tells whether the build lets nlinks -= 1 wrap at 0 or panics there.
unlink(t, dir, name, wraps) ==
    LET file == ino(t, dir)
        k == child_index(file.children, name, 1)
        other == NodeIn(dir.vfs, entry_fs(dir, file.children[k]), file.children[k].inode)
        removed == [t EXCEPT ![dir.fs].filesystem.inodes[dir.inode].children = RemoveAt(@, k)]
        counted == [removed EXCEPT ![other.fs].filesystem.inodes[other.inode].nlinks = @ - 1]
    IN  IF file.type_ # Dir THEN Fail(t, "NotDir")
        ELSE IF name = "." \/ name = ".." THEN Fail(t, "DirNotEmpty")
        ELSE IF k = 0 THEN (IF kind_of(t, dir) = "ramfs" THEN Done(t)
                            ELSE Fail(t, "EntryNotFound"))
        ELSE IF Len(ino(t, other).children) > 0 THEN Fail(t, "DirNotEmpty")
        ELSE IF kind_of(t, dir) = "ramfs" /\ ino(t, other).nlinks = 0 /\ ~wraps
        THEN Halt(removed, "panic")
        ELSE Done(counted)

\* The end of LockedINode::move_: old_name is unlinked, and new_name again
\* if that fails
move_unlink(linked, dir, old_name, target, new_name, wraps) ==
    LET u == unlink(linked.vfs, dir, old_name, wraps)
        back == unlink(u.vfs, target, new_name, wraps)
    IN  IF ~linked.ok \/ u.ok \/ u.halt # "" THEN (IF linked.ok THEN u ELSE linked)
        ELSE IF ~back.ok THEN back
        ELSE Fail(back.vfs, u.err)

\* The entry old_name of dir moved to new_name of target at once
moved(t, dir, old_name, target, new_name) ==
    LET k == child_index(ino(t, dir).children, old_name, 1)
        e == ino(t, dir).children[k]
        t1 == [t EXCEPT ![dir.fs].filesystem.inodes[dir.inode].children = RemoveAt(@, k)]
        t2 == [t1 EXCEPT ![target.fs].filesystem.inodes[target.inode].children =
                            Append(@, [e EXCEPT !.name = new_name])]
    IN  [t2 EXCEPT ![dir.fs].filesystem.inodes[e.inode].parent = target.inode]

\* INodeContainer::move_ over INode::move_ (LockedINode::move_)
move_(t, dir, old_name, target, new_name, wraps) ==
    IF kind_of(t, dir) = "ramfs" THEN
        IF ino(t, dir).type_ # Dir THEN Fail(t, "NotDir")
        ELSE IF old_name \notin {".", ".."}
                /\ child_index(ino(t, dir).children, old_name, 1) = 0
        THEN Fail(t, "EntryNotFound")
        ELSE IF kind_of(t, target) # "ramfs" THEN Halt(t, "panic")
        ELSE move_unlink(link(t, target, new_name,
                              IF old_name = "." THEN dir
                              ELSE IF old_name = ".."
                              THEN NodeIn(dir.vfs, dir.fs, ino(t, dir).parent)
                              ELSE DirEntryIn(t, dir, old_name)),
                         dir, old_name, target, new_name, wraps)
    ELSE
        IF target.fs # dir.fs THEN Fail(t, "NotSameFs")
        ELSE IF ino(t, dir).type_ # Dir \/ ino(t, target).type_ # Dir THEN Fail(t, "NotDir")
        ELSE IF child_index(ino(t, dir).children, old_name, 1) = 0
        THEN Fail(t, "EntryNotFound")
        ELSE IF child_index(ino(t, target).children, new_name, 1) # 0
        THEN Fail(t, "EntryExist")
        ELSE Done(moved(t, dir, old_name, target, new_name))

\* A faulty end of sys_renameat: moves whatever the mounts of the two parents
rename_move_any(t, old_parent, old_name, new_parent, new_name, wraps) ==
    move_(t, old_parent, old_name, new_parent, new_name, wraps)

\* The end of sys_renameat: the move, if both parents are of one mount
rename_move(t, old_parent, old_name, new_parent, new_name, wraps) ==
    IF old_parent.vfs = new_parent.vfs
    THEN move_(t, old_parent, old_name, new_parent, new_name, wraps)
    ELSE Fail(t, "NotSameFs")

\* The result of a path that was not resolved
NoOut == Out(Failed("OK"), Counters(FollowMax, 0))

\* sys_renameat, an old path that is a directory: its name in its parent
rename_old_named(parent, name) ==
    IF ~name.ok THEN [ok |-> FALSE, err |-> name.err]
    ELSE [ok |-> TRUE, err |-> "OK", parent |-> parent.val, name |-> name.name]

\* sys_renameat, an old path that is a directory: its parent
rename_old_dir(dir, parent) ==
    IF ~parent.ok THEN [ok |-> FALSE, err |-> parent.err]
    ELSE rename_old_named(parent, find_name_by_child(parent.val, dir, 0))

\* The parent and the name sys_renameat finds for its old path
rename_old(old_file) ==
    CASE old_file.kind = "Err" -> [ok |-> FALSE, err |-> old_file.err]
      [] old_file.kind = "NotExist" -> [ok |-> FALSE, err |-> "EntryNotFound"]
      [] old_file.kind = "IsFile" ->
            [ok |-> TRUE, err |-> "OK", parent |-> old_file.parent, name |-> old_file.name]
      [] OTHER ->
            rename_old_dir(old_file.node,
                           find(old_file.node,
                                has_reached_root(pathcfg, old_file.node), ".."))

\* sys_renameat: what move_ did is returned
rename_moved(oldpath, old, o, did) ==
    /\ ret' = Return("rename", oldpath, FALSE, did.err, o, old.parent, 0, 0)
    /\ vfs' = did.vfs

\* sys_renameat with its two paths resolved
rename_at(oldpath, wraps, old, o) ==
    CASE ~old.ok ->
           /\ ret' = Return("rename", oldpath, FALSE, old.err, NoOut, NoNode, 0, 0)
           /\ UNCHANGED vfs
      [] old.ok /\ o.r.kind = "Err" ->
           /\ ret' = Return("rename", oldpath, FALSE, o.r.err, o, old.parent, 0, 0)
           /\ UNCHANGED vfs
      [] old.ok /\ o.r.kind \in {"IsDir", "IsFile"} ->
           /\ ret' = Return("rename", oldpath, FALSE, "EntryExist", o, old.parent, 0, 0)
           /\ UNCHANGED vfs
      [] OTHER ->
           rename_moved(oldpath, old, o,
                        rename_move(vfs, old.parent, old.name, o.r.parent, o.r.name, wraps))

\* Syscall::sys_renameat with both dirfds AT_FDCWD
SysRenameat(oldpath, newpath, wraps) ==
    /\ ret.op = "idle"
    /\ rename_at(oldpath, wraps,
                 rename_old(path_resolve(pathcfg, pathcfg.cwd, oldpath, FALSE)),
                 path_resolve_counted(pathcfg, pathcfg.cwd, newpath, TRUE))
    /\ UNCHANGED <<pathcfg, lkm>>

\* The type sys_mknodat creates
CharDevice == "CharDevice"

\* sys_mknodat: what create did is returned
mknod_made(path, o, made) ==
    /\ vfs' = [vfs EXCEPT ![o.r.parent.fs].filesystem = made.fs]
    /\ ret' = Return("mknod", path, FALSE, made.err, o, NoNode, 0, 0)

\* sys_mknodat with its path resolved
mknod_at(path, o) ==
    CASE o.r.kind = "Err" ->
           /\ ret' = Return("mknod", path, FALSE, o.r.err, o, NoNode, 0, 0)
           /\ UNCHANGED vfs
      [] o.r.kind = "NotExist" /\ vfs[o.r.parent.fs].filesystem.kind # "ramfs" ->
           /\ ret' = Return("mknod", path, FALSE, "NotSupported", o, NoNode, 0, 0)
           /\ UNCHANGED vfs
      [] o.r.kind = "NotExist" /\ vfs[o.r.parent.fs].filesystem.kind = "ramfs" ->
           mknod_made(path, o, inode_create(o.r.parent, o.r.name, CharDevice))
      [] OTHER ->
           /\ ret' = Return("mknod", path, FALSE, "EntryExist", o, NoNode, 0, 0)
           /\ UNCHANGED vfs

\* Syscall::sys_mknodat with dir_fd = AT_FDCWD.  The boot file system does
\* not create a CharDevice.
SysMknodat(path) ==
    /\ ret.op = "idle"
    /\ Created < MaxCreate
    /\ mknod_at(path, path_resolve_counted(pathcfg, pathcfg.cwd, path, FALSE))
    /\ UNCHANGED <<pathcfg, lkm>>

\* sys_linkat: what link did is returned
link_made(oldpath, old, o, did) ==
    /\ ret' = Return("link", oldpath, FALSE, did.err, o, old.node, 0, 0)
    /\ vfs' = did.vfs

\* sys_linkat with its two paths resolved
link_at(oldpath, old, o) ==
    CASE old.kind = "Err" ->
           /\ ret' = Return("link", oldpath, FALSE, old.err, NoOut, NoNode, 0, 0)
           /\ UNCHANGED vfs
      [] old.kind = "IsDir" ->
           /\ ret' = Return("link", oldpath, FALSE, "IsDir", NoOut, NoNode, 0, 0)
           /\ UNCHANGED vfs
      [] old.kind = "NotExist" ->
           /\ ret' = Return("link", oldpath, FALSE, "EntryNotFound", NoOut, NoNode, 0, 0)
           /\ UNCHANGED vfs
      [] old.kind = "IsFile" /\ o.r.kind = "Err" ->
           /\ ret' = Return("link", oldpath, FALSE, o.r.err, o, old.node, 0, 0)
           /\ UNCHANGED vfs
      [] old.kind = "IsFile" /\ o.r.kind \in {"IsDir", "IsFile"} ->
           /\ ret' = Return("link", oldpath, FALSE, "EntryExist", o, old.node, 0, 0)
           /\ UNCHANGED vfs
      [] OTHER ->
           link_made(oldpath, old, o, link(vfs, o.r.parent, o.r.name, old.node))

\* Syscall::sys_linkat with both dirfds AT_FDCWD
SysLinkat(oldpath, newpath) ==
    /\ ret.op = "idle"
    /\ link_at(oldpath,
               path_resolve(pathcfg, pathcfg.cwd, oldpath, FALSE),
               path_resolve_counted(pathcfg, pathcfg.cwd, newpath, FALSE))
    /\ UNCHANGED <<pathcfg, lkm>>

\* PathConfig::init_root
init_root == [root |-> root_inode(1), cwd |-> root_inode(1)]

\* The test of sys_rmdir for a directory that must stay
rmdir_busy(inode) ==
    has_reached_root(pathcfg, inode) \/ has_reached_root(init_root, inode)

\* sys_rmdir: what unlink did is returned
rmdir_unlinked(path, o, did) ==
    /\ ret' = Return("rmdir", path, FALSE, did.err, o, o.r.node, 0, 0)
    /\ vfs' = did.vfs

\* sys_rmdir with the name of the directory in its parent
rmdir_named(path, wraps, o, parent, name) ==
    IF ~name.ok
    THEN /\ ret' = Return("rmdir", path, FALSE, name.err, o, o.r.node, 0, 0)
         /\ UNCHANGED vfs
    ELSE rmdir_unlinked(path, o, unlink(vfs, parent.val, name.name, wraps))

\* sys_rmdir with the parent of the directory
rmdir_in(path, wraps, o, parent) ==
    IF ~parent.ok
    THEN /\ ret' = Return("rmdir", path, FALSE, parent.err, o, o.r.node, 0, 0)
         /\ UNCHANGED vfs
    ELSE rmdir_named(path, wraps, o, parent, find_name_by_child(parent.val, o.r.node, 0))

\* sys_rmdir with its path resolved
rmdir_at(path, wraps, o) ==
    CASE o.r.kind = "Err" ->
           /\ ret' = Return("rmdir", path, FALSE, o.r.err, o, NoNode, 0, 0)
           /\ UNCHANGED vfs
      [] o.r.kind = "IsFile" ->
           /\ ret' = Return("rmdir", path, FALSE, "NotDir", o, NoNode, 0, 0)
           /\ UNCHANGED vfs
      [] o.r.kind = "NotExist" ->
           /\ ret' = Return("rmdir", path, FALSE, "EntryNotFound", o, NoNode, 0, 0)
           /\ UNCHANGED vfs
      [] o.r.kind = "IsDir" /\ rmdir_busy(o.r.node) ->
           /\ ret' = Return("rmdir", path, FALSE, "Busy", o, o.r.node, 0, 0)
           /\ UNCHANGED vfs
      [] OTHER -> rmdir_in(path, wraps, o, find(o.r.node, FALSE, ".."))

\* Syscall::sys_rmdir
SysRmdir(path, wraps) ==
    /\ ret.op = "idle"
    /\ rmdir_at(path, wraps, path_resolve_counted(pathcfg, pathcfg.cwd, path, FALSE))
    /\ UNCHANGED <<pathcfg, lkm>>

----------------------------------------------------------------------------
(* Calls on the kernel-VM arena *)

\* The kernel runs on
Running == lkm.res.err # "panic"

\* MemorySpaceManager::alloc on KERNELVM_MANAGER; wraps: the build wraps on overflow
KernelVmAlloc(size, wraps) ==
    /\ Running
    /\ lkm.calls < MaxAllocs
    /\ LET did == LinearManager_alloc(lkm.vmm, size)
       IN  IF alloc_overflows(lkm.vmm) /\ ~wraps
           THEN lkm' = [lkm EXCEPT !.calls = @ + 1,
                                   !.shootdowns = <<>>,
                                   !.res = LkmResult("alloc", "panic", None)]
           ELSE lkm' = [lkm EXCEPT !.calls = @ + 1,
                                   !.vmm = did.vmm,
                                   !.live = Append(@, Live(size, did.ret, FALSE)),
                                   !.shootdowns = <<>>,
                                   !.res = LkmResult("alloc", "OK", did.ret)]
    /\ UNCHANGED <<vfs, pathcfg, ret>>

\* MemorySpaceManager::free on KERNELVM_MANAGER of the k-th live allocation
KernelVmFree(k) ==
    /\ Running
    /\ k \in 1..Len(lkm.live)
    /\ ~lkm.live[k].scoped
    /\ lkm' = [lkm EXCEPT !.vmm = LinearManager_free(@, <<lkm.live[k].addr, lkm.live[k].size>>),
                          !.live = RemoveAt(@, k),
                          !.frees = Append(@, <<lkm.live[k].addr, lkm.live[k].size>>),
                          !.shootdowns = <<>>,
                          !.res = LkmResult("free", "OK", None)]
    /\ UNCHANGED <<vfs, pathcfg, ret>>

\* VirtualSpace::new(&KERNELVM_MANAGER, size)
VirtualSpace_new(size, wraps) ==
    /\ Running
    /\ lkm.calls < MaxAllocs
    /\ LET did == LinearManager_alloc(lkm.vmm, size)
       IN  IF alloc_overflows(lkm.vmm) /\ ~wraps
           THEN lkm' = [lkm EXCEPT !.calls = @ + 1,
                                   !.shootdowns = <<>>,
                                   !.res = LkmResult("new", "panic", None)]
           ELSE lkm' = [lkm EXCEPT !.calls = @ + 1,
                                   !.vmm = did.vmm,
                                   !.live = Append(@, Live(size, did.ret, TRUE)),
                                   !.spaces = Append(@, VirtualSpaceRec(did.ret.addr,
                                                                        did.ret.size, <<>>)),
                                   !.shootdowns = <<>>,
                                   !.res = LkmResult("new", "OK", did.ret)]
    /\ UNCHANGED <<vfs, pathcfg, ret>>

\* VirtualSpace::add_area(start_addr, end_addr) on the k-th space, the two
\* addresses given from the start of the space.  ByFrame::map of a page that
\* is mapped already is not part of the model.
VirtualSpace_add_area(k, from, to) ==
    /\ Running
    /\ k \in 1..Len(lkm.spaces)
    /\ Len(lkm.spaces[k].areas) < MaxAreas
    /\ LET start_addr == plus(lkm.spaces[k].start, from)
           end_addr == plus(lkm.spaces[k].start, to)
           area == VirtualArea_new(start_addr, minus(end_addr, start_addr))
       IN  /\ area_pages(area) \cap lkm.page_table = {}
           /\ lkm' = [lkm EXCEPT !.spaces[k].areas = Append(@, area),
                                 !.page_table = @ \cup area_pages(area),
                                 !.shootdowns = <<>>,
                                 !.res = LkmResult("add_area", "OK",
                                                   Some(area.start, minus(area.end, area.start)))]
    /\ UNCHANGED <<vfs, pathcfg, ret>>

\* The TLB shootdowns of VirtualArea::unmap for every area of a space
unmap_shootdowns(s) == [i \in 1..Len(s.areas) |-> <<s.areas[i].start, s.areas[i].end>>]

\* Drop for VirtualSpace of the k-th space
VirtualSpace_drop(k) ==
    /\ Running
    /\ k \in 1..Len(lkm.spaces)
    /\ lkm' = [lkm EXCEPT !.spaces = RemoveAt(@, k),
                          !.page_table = @ \ space_pages(lkm.spaces[k]),
                          !.shootdowns = unmap_shootdowns(lkm.spaces[k]),
                          !.res = LkmResult("drop", "OK",
                                            Some(lkm.spaces[k].start, lkm.spaces[k].size))]
    /\ UNCHANGED <<vfs, pathcfg, ret>>

\* Sizes asked of the arena: nothing, a byte, a page, a page and a byte, the
\* whole region, and all that lies above KSEG2_START
VmSizes == {usize(0, 0), usize(0, 1), usize(1, 0), usize(1, 1),
            usize(RegionPages, 0), usize(TopPages, 0)}

\* Sizes of the spaces
SpaceSizes == {usize(0, 1), usize(2, 0)}

\* Where areas begin and end, from the start of their space
AreaBounds == {usize(0, 0), usize(0, 1), usize(1, 0), usize(1, 1), usize(2, 0)}

NextVm ==
    \/ \E size \in VmSizes, wraps \in BOOLEAN : KernelVmAlloc(size, wraps)
    \/ \E k \in 1..MaxAllocs : KernelVmFree(k)
    \/ \E size \in SpaceSizes, wraps \in BOOLEAN : VirtualSpace_new(size, wraps)
    \/ \E k \in 1..MaxAllocs, from \in AreaBounds, to \in AreaBounds :
           /\ from.pages * PAGE_SIZE + from.rem < to.pages * PAGE_SIZE + to.rem
           /\ VirtualSpace_add_area(k, from, to)
    \/ \E k \in 1..MaxAllocs : VirtualSpace_drop(k)

SpecVm == Init /\ [][NextVm]_vars

----------------------------------------------------------------------------
(* ModuleManager::init_module *)

\* What init_module gave back: the error, the VirtualSpace of the module, the
\* words written by the relocations and the symbols gathered for export
LoadResult(image, err, val, writes, exported) ==
    [op |-> "init_module", err |-> err, val |-> val, image |-> image,
     writes |-> writes, exported |-> exported]

\* init_module stops before it asks for a VirtualSpace
load_refused(l, image, err) ==
    [l EXCEPT !.shootdowns = <<>>,
              !.res = LoadResult(image, err, None, <<>>, <<>>)]

\* The area of the i-th program header: vspace.add_area(prog_start_addr, prog_end_addr)
load_area(image, base, i) ==
    VirtualArea_new(plus(base, bytes(image.program[i].virtual_addr)),
                    bytes(image.program[i].mem_size))

\* The areas added for the Load headers among the first k program headers
RECURSIVE load_areas(_, _, _)
load_areas(image, base, k) ==
    IF k = 0 THEN <<>>
    ELSE IF image.program[k].type = "Load"
    THEN Append(load_areas(image, base, k - 1), load_area(image, base, k))
    ELSE load_areas(image, base, k - 1)

\* The Load headers whose file_size exceeds mem_size: target[..file_size] panics
copy_panics(image) ==
    {i \in loads(image) : image.program[i].file_size > image.program[i].mem_size}

\* The program headers that init_module gets through
loaded_upto(image) ==
    IF copy_panics(image) = {} THEN Len(image.program)
    ELSE CHOOSE i \in copy_panics(image) : \A j \in copy_panics(image) : i <= j

\* The VirtualSpace of the module once its segments are loaded
load_vspace(l, image) ==
    VirtualSpaceRec(usize(l.vmm.last_page, 0),
                    usize(required_pages(bytes(map_len(image))), 0),
                    load_areas(image, usize(l.vmm.last_page, 0), loaded_upto(image)))

\* The arena after VirtualSpace::new(&KERNELVM_MANAGER, map_len)
load_allocated(l, image) ==
    [l EXCEPT !.calls = @ + 1,
              !.vmm = LinearManager_alloc(l.vmm, bytes(map_len(image))).vmm,
              !.live = Append(@, Live(bytes(map_len(image)),
                                      LinearManager_alloc(l.vmm, bytes(map_len(image))).ret,
                                      TRUE))]

\* The entries of the three relocation sections in the order they are
\* applied: jmprel, rel (Rel64: the addend is 0), rela
reloc_items(image) ==
    image.jmprel \o [i \in 1..Len(image.rel) |-> [image.rel[i] EXCEPT !.addend = 0]]
                 \o image.rela

\* relocate_single_symbol panics: the symbol index is out of range, the
\* symbol does not resolve, or the type is REL_OFFSET32 or unknown
relocate_panics(self, base, item, dynsym) ==
    \/ item.sym >= Len(dynsym)
    \/ ~get_symbol_loc(self, item.sym, dynsym, base).some
    \/ item.type \notin {"NONE", "SYMBOLIC", "GOT", "PLT", "RELATIVE"}

\* relocate_single_symbol: the words written, as <<address, value>>
relocate_single_symbol(self, base, item, dynsym) ==
    CASE item.type \in {"SYMBOLIC", "GOT", "PLT"} ->
             <<<<plus(base, bytes(item.offset)),
                 plus(get_symbol_loc(self, item.sym, dynsym, base).loc, bytes(item.addend))>>>>
      [] item.type = "RELATIVE" ->
             <<<<plus(base, bytes(item.offset)), plus(base, bytes(item.addend))>>>>
      [] OTHER -> <<>>

\* The relocation entries that panic
reloc_panics(self, base, image) ==
    {i \in 1..Len(reloc_items(image)) :
         relocate_panics(self, base, reloc_items(image)[i], image.dynsym)}

\* reloc_symbols of the three sections: the words written by the first k entries
RECURSIVE reloc_symbols(_, _, _, _)
reloc_symbols(self, base, image, k) ==
    IF k = 0 THEN <<>>
    ELSE reloc_symbols(self, base, image, k - 1)
             \o relocate_single_symbol(self, base, reloc_items(image)[k], image.dynsym)

\* The p-th pair of the loop over info.exported_symbols and the dynsym table
export_name(image, p) == image.info.exported_symbols[((p - 1) \div Len(image.dynsym)) + 1]
export_sym(image, p) == image.dynsym[((p - 1) % Len(image.dynsym)) + 1]

\* loaded_minfo.exported_symbols after the first p pairs of that loop
RECURSIVE exported_upto(_, _, _)
exported_upto(image, base, p) ==
    IF p = 0 THEN <<>>
    ELSE IF export_name(image, p) = export_sym(image, p).name
    THEN Append(exported_upto(image, base, p - 1),
                ModuleSymbol(export_name(image, p),
                             plus(base, bytes(export_sym(image, p).value))))
    ELSE exported_upto(image, base, p - 1)

\* loaded_minfo.exported_symbols when the loop is over
module_exports(image, base) ==
    exported_upto(image, base, Len(image.info.exported_symbols) * Len(image.dynsym))

\* lkm_entry: the last exported symbol named init_module
lkm_entry(exported) ==
    LET hits == {i \in 1..Len(exported) : exported[i].name = "init_module"}
    IN  IF hits = {} THEN NotFound
        ELSE Found(exported[CHOOSE i \in hits : \A j \in hits : i >= j].loc)

\* The kernel panics during the load: the VirtualSpace s stays as it is
load_halted(l, image, s, writes) ==
    [load_allocated(l, image) EXCEPT
         !.spaces = Append(@, s),
         !.page_table = @ \cup space_pages(s),
         !.shootdowns = <<>>,
         !.res = LoadResult(image, "panic", Some(s.start, s.size), writes, <<>>)]

\* A faulty return of init_module: the VirtualSpace of the module is
\* forgotten, its pages stay mapped
load_returns_mapped(l, image, s, err, writes, exported, entered) ==
    [load_allocated(l, image) EXCEPT
         !.page_table = @ \cup space_pages(s),
         !.shootdowns = <<>>,
         !.entered = @ \o entered,
         !.res = LoadResult(image, err, Some(s.start, s.size), writes, exported)]

\* init_module returns: loaded_minfo goes out of scope and its VirtualSpace s
\* is dropped; entered: the entry points called
load_returns(l, image, s, err, writes, exported, entered) ==
    [load_allocated(l, image) EXCEPT
         !.page_table = @ \ space_pages(s),
         !.shootdowns = unmap_shootdowns(s),
         !.entered = @ \o entered,
         !.res = LoadResult(image, err, Some(s.start, s.size), writes, exported)]

\* A faulty link: the entry point is called when .rela.plt and .rel.dyn are
\* applied and .rela.dyn is not yet
load_link_unrelocated(l, image, s) ==
    IF ~image.has_dynsym \/ ~image.has_dynamic
    THEN load_returns(l, image, s, "ENOEXEC", <<>>, <<>>, <<>>)
    ELSE IF ~lkm_entry(module_exports(image, s.start)).some
    THEN load_returns(l, image, s, "ENOEXEC", <<>>, module_exports(image, s.start), <<>>)
    ELSE load_returns(l, image, s, "OK",
                      reloc_symbols(l.manager, s.start, image,
                                    Len(image.jmprel) + Len(image.rel)),
                      module_exports(image, s.start),
                      <<lkm_entry(module_exports(image, s.start)).loc>>)

\* init_module from the relocations on, s the VirtualSpace of the module
load_link(l, image, s) ==
    IF ~image.has_dynsym \/ ~image.has_dynamic
    THEN load_returns(l, image, s, "ENOEXEC", <<>>, <<>>, <<>>)
    ELSE IF reloc_panics(l.manager, s.start, image) # {}
    THEN load_halted(l, image, s,
                     reloc_symbols(l.manager, s.start, image,
                                   (CHOOSE i \in reloc_panics(l.manager, s.start, image) :
                                        \A j \in reloc_panics(l.manager, s.start, image) : i <= j) - 1))
    ELSE IF ~lkm_entry(module_exports(image, s.start)).some
    THEN load_returns(l, image, s, "ENOEXEC",
                      reloc_symbols(l.manager, s.start, image, Len(reloc_items(image))),
                      module_exports(image, s.start), <<>>)
    ELSE load_returns(l, image, s, "OK",
                      reloc_symbols(l.manager, s.start, image, Len(reloc_items(image))),
                      module_exports(image, s.start),
                      <<lkm_entry(module_exports(image, s.start)).loc>>)

\* ModuleManager::init_module; wraps: the build wraps on overflow
init_module(l, image, wraps) ==
    IF ~image.elf THEN load_refused(l, image, "panic")
    ELSE IF image.is32 \/ image.type # "SharedObject" \/ image.info.section \in {"none", "bad"}
    THEN load_refused(l, image, "ENOEXEC")
    ELSE IF image.info.section = "panic" THEN load_refused(l, image, "panic")
    ELSE IF (loads(image) = {} \/ alloc_overflows(l.vmm)) /\ ~wraps
    THEN load_refused(l, image, "panic")
    ELSE IF copy_panics(image) # {}
    THEN load_halted(l, image, load_vspace(l, image), <<>>)
    ELSE load_link(l, image, load_vspace(l, image))

\* sys_init_module.  ByFrame::map of a page that is mapped already is not
\* part of the model.
SysInitModule(image, wraps) ==
    /\ Running
    /\ lkm.calls < MaxAllocs
    /\ image.elf /\ image.info.section = "ok" =>
           /\ space_pages(load_vspace(lkm, image)) \cap lkm.page_table = {}
           /\ \A i, j \in 1..Len(load_vspace(lkm, image).areas) :
                  i # j => area_pages(load_vspace(lkm, image).areas[i])
                               \cap area_pages(load_vspace(lkm, image).areas[j]) = {}
    /\ lkm' = init_module(lkm, image, wraps)
    /\ UNCHANGED <<vfs, pathcfg, ret>>

\* struct ModuleInfo; section: what became of the section .rcore-lkm
\* ("ok": ModuleInfo::parse gave Some, "bad": it gave None, "panic": it
\* panicked, "none": there is no such section)
ModuleInfo(name, exported) ==
    [section |-> "ok", name |-> name, version |-> 0, api_version |-> 0,
     exported_symbols |-> exported, dependent_modules |-> <<>>]
NoInfo == [ModuleInfo("", <<>>) EXCEPT !.section = "none"]

\* The text of the section .rcore-lkm: its lines, each line the columns
\* between ':', each column the items between ',', each item the parts
\* between '='
Metadata(lines) == [present |-> TRUE, lines |-> lines]
NoMetadata == [present |-> FALSE, lines |-> <<>>]
Column(items) == [i \in 1..Len(items) |-> <<items[i]>>]
Line(key, items) == <<Column(<<key>>), Column(items)>>
EmptyLine == <<Column(<<"">>)>>

\* The text of an item and of a column
RECURSIVE item_text(_, _)
item_text(item, k) ==
    IF k = 1 THEN item[1] ELSE item_text(item, k - 1) \o "=" \o item[k]
RECURSIVE column_text(_, _)
column_text(column, k) ==
    IF k = 1 THEN item_text(column[1], Len(column[1]))
    ELSE column_text(column, k - 1) \o "," \o item_text(column[k], Len(column[k]))

\* str::parse::<i32> on the numerals that occur in the texts
parse_i32(text) ==
    CASE text = "0" -> [ok |-> TRUE, val |-> 0]
      [] text = "1" -> [ok |-> TRUE, val |-> 1]
      [] text = "2" -> [ok |-> TRUE, val |-> 2]
      [] OTHER -> [ok |-> FALSE, val |-> 0]

\* ModuleInfo::parse, the loop over the items of a dependence column
RECURSIVE parse_dependence(_, _, _)
parse_dependence(minfo, items, k) ==
    IF k = 0 THEN minfo
    ELSE IF parse_dependence(minfo, items, k - 1).section # "ok"
    THEN parse_dependence(minfo, items, k - 1)
    ELSE IF items[k] = <<"">>
    THEN parse_dependence(minfo, items, k - 1)
    ELSE IF Len(items[k]) < 2 \/ ~parse_i32(items[k][2]).ok
    THEN [parse_dependence(minfo, items, k - 1) EXCEPT !.section = "panic"]
    ELSE [parse_dependence(minfo, items, k - 1) EXCEPT
              !.dependent_modules =
                  Append(@, [name |-> items[k][1],
                             api_version |-> parse_i32(items[k][2]).val])]

\* ModuleInfo::parse, one line
parse_line(minfo, columns) ==
    IF minfo.section # "ok" \/ columns = EmptyLine THEN minfo
    ELSE IF Len(columns) # 2 THEN [minfo EXCEPT !.section = "bad"]
    ELSE CASE column_text(columns[1], Len(columns[1])) = "name" ->
                  [minfo EXCEPT !.name = column_text(columns[2], Len(columns[2]))]
           [] column_text(columns[1], Len(columns[1])) = "version" ->
                  IF parse_i32(column_text(columns[2], Len(columns[2]))).ok
                  THEN [minfo EXCEPT
                            !.version = parse_i32(column_text(columns[2], Len(columns[2]))).val]
                  ELSE [minfo EXCEPT !.section = "panic"]
           [] column_text(columns[1], Len(columns[1])) = "api_version" ->
                  IF parse_i32(column_text(columns[2], Len(columns[2]))).ok
                  THEN [minfo EXCEPT
                            !.api_version = parse_i32(column_text(columns[2], Len(columns[2]))).val]
                  ELSE [minfo EXCEPT !.section = "panic"]
           [] column_text(columns[1], Len(columns[1])) = "exported_symbols" ->
                  [minfo EXCEPT
                       !.exported_symbols =
                           [i \in 1..Len(columns[2]) |->
                                item_text(columns[2][i], Len(columns[2][i]))]]
           [] column_text(columns[1], Len(columns[1])) = "dependence" ->
                  parse_dependence(minfo, columns[2], Len(columns[2]))
           [] OTHER -> [minfo EXCEPT !.section = "bad"]

\* ModuleInfo::parse, the first k lines
RECURSIVE parse_lines(_, _)
parse_lines(lines, k) ==
    IF k = 0 THEN ModuleInfo("<anonymous module>", <<>>)
    ELSE parse_line(parse_lines(lines, k - 1), lines[k])

\* ModuleInfo::parse
ModuleInfo_parse(lines) == parse_lines(lines, Len(lines))

\* minfo of init_module: the section .rcore-lkm found and parsed
module_info(metadata) ==
    IF metadata.present THEN ModuleInfo_parse(metadata.lines) ELSE NoInfo

\* The image with another section .rcore-lkm
WithMetadata(image, metadata) ==
    [image EXCEPT !.metadata = metadata, !.info = module_info(metadata)]

\* A program header, a dynamic symbol and a relocation entry of an image
Ph(type, virtual_addr, mem_size, offset, file_size) ==
    [type |-> type, virtual_addr |-> virtual_addr, mem_size |-> mem_size,
     offset |-> offset, file_size |-> file_size]
Sym(name, shndx, value) == [name |-> name, shndx |-> shndx, value |-> value]
Rel(offset, type, sym, addend) == [offset |-> offset, type |-> type, sym |-> sym, addend |-> addend]

\* The section .rcore-lkm of the module Hello
HelloMetadata ==
    Metadata(<<Line("name", <<"hello">>), Line("version", <<"1">>),
               Line("api_version", <<"1">>),
               Line("exported_symbols", <<"init_module", "hello_fn">>), EmptyLine>>)

\* A module of one segment that exports init_module and hello_fn and calls lkm_api_pong
Hello ==
    [elf |-> TRUE, is32 |-> FALSE, type |-> "SharedObject",
     metadata |-> HelloMetadata,
     info |-> module_info(HelloMetadata),
     program |-> <<Ph("Dynamic", 4096, 64, 4096, 64), Ph("Load", 0, 4196, 0, 4160)>>,
     has_dynsym |-> TRUE, has_dynamic |-> TRUE,
     dynsym |-> <<Sym("", 0, 0), Sym("init_module", 1, 16), Sym("hello_fn", 1, 32),
                  Sym("lkm_api_pong", 0, 0)>>,
     jmprel |-> <<Rel(4104, "PLT", 3, 0)>>,
     rel |-> <<Rel(4112, "NONE", 1, 8)>>,
     rela |-> <<Rel(4120, "SYMBOLIC", 2, 8), Rel(4128, "RELATIVE", 1, 64)>>]

\* A module that calls hello_fn of the module Hello
Client ==
    [WithMetadata(Hello, Metadata(<<Line("name", <<"client">>),
                                    Line("exported_symbols", <<"init_module">>),
                                    <<Column(<<"dependence">>), <<<<"hello", "1">>, <<"">>>>>>>>))
         EXCEPT   !.dynsym = <<Sym("", 0, 0), Sym("init_module", 1, 16), Sym("hello_fn", 0, 0)>>,
                  !.jmprel = <<Rel(4104, "PLT", 2, 0)>>,
                  !.rel = <<>>,
                  !.rela = <<>>]

\* The images given to sys_init_module
Images ==
    {Hello, Client,
     [Hello EXCEPT !.elf = FALSE],
     [Hello EXCEPT !.is32 = TRUE],
     [Hello EXCEPT !.type = "Executable"],
     WithMetadata(Hello, NoMetadata),
     WithMetadata(Hello, Metadata(<<<<Column(<<"name">>), Column(<<"hello">>), Column(<<"1">>)>>>>)),
     WithMetadata(Hello, Metadata(<<Line("name", <<"hello">>), Line("license", <<"GPL">>)>>)),
     WithMetadata(Hello, Metadata(<<<<Column(<<"name">>)>>>>)),
     WithMetadata(Hello, Metadata(<<Line("version", <<"one">>)>>)),
     WithMetadata(Hello, Metadata(<<Line("api_version", <<"">>)>>)),
     WithMetadata(Hello, Metadata(<<<<Column(<<"dependence">>), <<<<"base">>>>>>>>)),
     WithMetadata(Hello, Metadata(<<<<Column(<<"dependence">>), <<<<"base", "one">>>>>>>>)),
     WithMetadata([Hello EXCEPT !.is32 = TRUE], Metadata(<<Line("version", <<"one">>)>>)),
     [Hello EXCEPT !.has_dynsym = FALSE],
     [Hello EXCEPT !.has_dynamic = FALSE],
     WithMetadata(Hello, Metadata(<<Line("name", <<"noinit">>),
                                    Line("exported_symbols", <<"hello_fn">>)>>)),
     WithMetadata(Hello, Metadata(<<Line("name", <<"absent">>),
                                    Line("exported_symbols", <<"init_module", "absent_fn">>)>>)),
     [Hello EXCEPT !.program = <<Ph("Load", 0, 100, 0, 100), Ph("Load", 8192, 4097, 4096, 16)>>],
     [Hello EXCEPT !.program = <<Ph("Load", 8192, 4196, 0, 4160)>>],
     [Hello EXCEPT !.program = <<Ph("Dynamic", 4096, 64, 4096, 64)>>],
     [Hello EXCEPT !.program = <<Ph("Load", 0, 4196, 0, 4200)>>],
     [Hello EXCEPT !.rela = <<Rel(4120, "OFFSET32", 1, 0)>>],
     [Hello EXCEPT !.jmprel = <<>>, !.rel = <<>>, !.rela = <<Rel(4120, "RELATIVE", 0, 64)>>]}

NextLkm == \E image \in Images, wraps \in BOOLEAN : SysInitModule(image, wraps)

SpecLkm == Init /\ [][NextLkm]_vars

----------------------------------------------------------------------------

\* The symbol tables find_symbol_in_deps is applied to: at most MaxModules
\* loaded modules of at most MaxExports exported symbols each
MaxModules == 2
MaxExports == 2
SymbolNames == {"lkm_api_pong", "hello_fn"}
SymbolLocs == {usize(0, 16), usize(2, 16)}
ExportedSymbols ==
    UNION {[1..n -> {ModuleSymbol(name, loc) : name \in SymbolNames, loc \in SymbolLocs}] :
               n \in 0..MaxExports}
LoadedModules ==
    UNION {[1..n -> {[exported_symbols |-> e] : e \in ExportedSymbols}] : n \in 0..MaxModules}

\* The module manager with some modules in loaded_modules
InitSym ==
    /\ vfs = <<VirtualFS(init_mount_sfs, EmptyMap, NoNode)>>
    /\ pathcfg = [root |-> root_inode(1), cwd |-> root_inode(1)]
    /\ ret = Idle
    /\ \E loaded \in LoadedModules :
           lkm = [LkmInit EXCEPT !.manager.loaded_modules = loaded]

\* A lookup of a symbol in the kernel stubs and the loaded modules
FindSymbol(symbol) ==
    /\ lkm.res.op = "idle"
    /\ lkm' = [lkm EXCEPT !.res = [op |-> "find_symbol_in_deps", err |-> "OK",
                                   symbol |-> symbol,
                                   val |-> find_symbol_in_deps(lkm.manager, symbol)]]
    /\ UNCHANGED <<vfs, pathcfg, ret>>

NextSym == \E symbol \in SymbolNames \cup {"absent_fn"} : FindSymbol(symbol)

SpecSym == InitSym /\ [][NextSym]_vars

----------------------------------------------------------------------------

\* A call of PathConfig::path_resolve from the process's cwd, as made by
\* sys_stat (resolve_last_symbol) and sys_lstat (not)
PathResolve(path, resolve_last_symbol) ==
    /\ ret.op = "idle"
    /\ LET o == path_resolve_counted(pathcfg, pathcfg.cwd, path, resolve_last_symbol)
       IN  ret' = Return("resolve", path, resolve_last_symbol, o.r.err, o, NoNode, 0, 0)
    /\ UNCHANGED <<vfs, pathcfg, lkm>>

\* The call returns to the process
SysReturn ==
    /\ ret.op # "idle"
    /\ ret.err \notin {"panic", "deadlock"}
    /\ ret' = Idle
    /\ UNCHANGED <<vfs, pathcfg, lkm>>

\* dev_major of cdev.rs
dev_major(dev) == (dev \div 256) % 128

\* inode.metadata().rdev: ramfs creates every inode with rdev 0, and no
\* system call sets another
metadata_rdev(n) == 0

\* struct CharDev
CharDev(parent_module, file_op) == [parent_module |-> parent_module, file_op |-> file_op]

\* The files of the process are at most MaxFiles
MaxFiles == 2
OpenFlags == {{}, {"CREATE"}, {"EXCLUSIVE"}}
Majors == {0, 20}
FileOps == {1, 2}

\* FileHandle::new; overlay_file_operations and belonging_device 0: None
FileHandle_new(inode_container, options) ==
    [inode_container |-> inode_container, offset |-> 0, options |-> options,
     overlay_file_operations |-> 0, belonging_device |-> 0, user_data |-> 0]

\* sys_openat from the inode ic on: the file is made and added
open_inode(path, flags, o, ic, type_) ==
    IF type_ = CharDevice
    THEN /\ ret' = Return("open", path, TRUE, "panic", o, ic, 0, 0)
         /\ UNCHANGED lkm
    ELSE /\ ret' = Return("open", path, TRUE, "OK", o, ic, 0, Len(lkm.files) + 1)
         /\ lkm' = [lkm EXCEPT !.files = Append(@, FileHandle_new(ic, flags))]

\* sys_openat makes the file it does not find
open_created(path, flags, o, made) ==
    IF made.ok
    THEN /\ vfs' = [vfs EXCEPT ![o.r.parent.fs].filesystem = made.fs]
         /\ open_inode(path, flags, o,
                       NodeIn(o.r.parent.vfs, o.r.parent.fs, Len(made.fs.inodes)), File)
    ELSE /\ ret' = Return("open", path, TRUE, made.err, o, NoNode, 0, 0)
         /\ UNCHANGED <<vfs, lkm>>

\* sys_openat with its path resolved
open_at(path, flags, o) ==
    CASE o.r.kind = "Err" ->
           /\ ret' = Return("open", path, TRUE, o.r.err, o, NoNode, 0, 0)
           /\ UNCHANGED <<vfs, lkm>>
      [] o.r.kind \in {"IsFile", "IsDir"} /\ "EXCLUSIVE" \in flags ->
           /\ ret' = Return("open", path, TRUE, "EEXIST", o, NoNode, 0, 0)
           /\ UNCHANGED <<vfs, lkm>>
      [] o.r.kind \in {"IsFile", "IsDir"} /\ "EXCLUSIVE" \notin flags ->
           /\ open_inode(path, flags, o, o.r.node, metadata_type(o.r.node))
           /\ UNCHANGED vfs
      [] o.r.kind = "NotExist" /\ "CREATE" \in flags /\ Created < MaxCreate ->
           open_created(path, flags, o, inode_create(o.r.parent, o.r.name, File))
      [] OTHER ->
           /\ ret' = Return("open", path, TRUE, "ENOENT", o, NoNode, 0, 0)
           /\ UNCHANGED <<vfs, lkm>>

\* Syscall::sys_openat with dir_fd = AT_FDCWD
SysOpenat(path, flags) ==
    /\ ret.op = "idle"
    /\ Len(lkm.files) < MaxFiles
    /\ open_at(path, flags, path_resolve_counted(pathcfg, pathcfg.cwd, path, TRUE))
    /\ UNCHANGED pathcfg

\* CDevManager::registerDevice, called by a module through
\* lkm_api_register_device
RegisterDevice(major, file_op) ==
    /\ Running
    /\ ret.op = "idle"
    /\ lkm' = [lkm EXCEPT !.dev_map = (major :> CharDev(1, file_op)) @@ @]
    /\ UNCHANGED <<vfs, pathcfg, ret>>

\* The paths that are opened
DevPaths == {join(<<"", "mnt", "f">>), join(<<"", "mnt", "g">>), join(<<"", "etc", "passwd">>)}

NextDev ==
    \/ SysMount(join(<<"", "mnt">>), "ramfs")
    \/ SysMknodat(join(<<"", "mnt", "f">>))
    \/ \E major \in Majors, file_op \in FileOps : RegisterDevice(major, file_op)
    \/ \E path \in DevPaths, flags \in OpenFlags : SysOpenat(path, flags)
    \/ SysReturn

SpecDev == Init /\ [][NextDev]_vars

\* Each processor begins at most MaxOps calls
MaxOps == 3

\* A processor calls LoadedModule::grab, or drops a ModuleGuard it holds
Begin(t, op) ==
    /\ lkm.cpus[t].pc = "idle"
    /\ lkm.cpus[t].ops < MaxOps
    /\ op = "drop" => lkm.cpus[t].guards > 0
    /\ lkm' = [lkm EXCEPT !.cpus[t].pc = "lock", !.cpus[t].op = op, !.cpus[t].ops = @ + 1]
    /\ UNCHANGED <<vfs, pathcfg, ret>>

\* self.lock.lock(): the processor spins until the lock is free and takes it
Lock(t) ==
    /\ lkm.cpus[t].pc = "lock"
    /\ lkm.module.lock = 0
    /\ lkm' = [lkm EXCEPT !.module.lock = t, !.cpus[t].pc = "unlock"]
    /\ UNCHANGED <<vfs, pathcfg, ret>>

\* The guard that lock() gave is a temporary of the statement: it is dropped
\* at its end, which frees the lock
Unlock(t) ==
    /\ lkm.cpus[t].pc = "unlock"
    /\ lkm' = [lkm EXCEPT !.module.lock = 0, !.cpus[t].pc = "read"]
    /\ UNCHANGED <<vfs, pathcfg, ret>>

\* using_counts += 1 and using_counts -= 1: the count is read
Read(t) ==
    /\ lkm.cpus[t].pc = "read"
    /\ lkm' = [lkm EXCEPT !.cpus[t].tmp = lkm.module.using_counts, !.cpus[t].pc = "write"]
    /\ UNCHANGED <<vfs, pathcfg, ret>>

\* using_counts += 1 and using_counts -= 1: the count is written; grab
\* returns a ModuleGuard, the drop of a ModuleGuard ends
Write(t) ==
    /\ lkm.cpus[t].pc = "write"
    /\ lkm' = [lkm EXCEPT
                   !.module.using_counts =
                       IF lkm.cpus[t].op = "grab" THEN lkm.cpus[t].tmp + 1
                       ELSE lkm.cpus[t].tmp - 1,
                   !.cpus[t].guards = IF lkm.cpus[t].op = "grab" THEN @ + 1 ELSE @ - 1,
                   !.cpus[t].pc = "idle",
                   !.cpus[t].op = "none",
                   !.cpus[t].tmp = 0]
    /\ UNCHANGED <<vfs, pathcfg, ret>>

NextGrab ==
    \/ \E t \in Cpus, op \in {"grab", "drop"} : Begin(t, op)
    \/ \E t \in Cpus : Lock(t)
    \/ \E t \in Cpus : Unlock(t)
    \/ \E t \in Cpus : Read(t)
    \/ \E t \in Cpus : Write(t)

SpecGrab == Init /\ [][NextGrab]_vars

\* The ramfs the processors work on is the file system mounted last, once
\* one is mounted; it has at most MaxRamInodes inodes, and a processor begins
\* at most MaxLinks calls of link
RamFs == Len(vfs)
Mounted == Len(vfs) > Len(<<init_mount_sfs>>)
MaxRamInodes == 3
MaxLinks == 2

\* LockedINode::create on the root of the ramfs, called by a module
RamCreate(name) ==
    /\ ret.op = "idle"
    /\ Mounted
    /\ vfs[RamFs].filesystem.kind = "ramfs"
    /\ Len(vfs[RamFs].filesystem.inodes) < MaxRamInodes
    /\ inode_create(root_inode(RamFs), name, File).ok
    /\ vfs' = [vfs EXCEPT ![RamFs].filesystem = inode_create(root_inode(RamFs), name, File).fs]
    /\ UNCHANGED <<pathcfg, ret, lkm>>

\* lockMultiple of two locks: the order the write locks are taken in, a
\* stable sort by extra.inode
lockMultiple(locks, inode) ==
    IF inode[2] < inode[1] THEN <<locks[2], locks[1]>> ELSE locks

\* The processor holds the write lock of the i-th inode of the ramfs
Holds(t, i) == \E k \in 1..lkm.links[t].got : lkm.links[t].order[k] = i
WriteLocked(i) == \E t \in Cpus : Holds(t, i)

\* A processor calls link on two inodes of the ramfs
LinkBegin(t, self, other) ==
    /\ Mounted
    /\ vfs[RamFs].filesystem.kind = "ramfs"
    /\ self \in 1..Len(vfs[RamFs].filesystem.inodes)
    /\ other \in 1..Len(vfs[RamFs].filesystem.inodes)
    /\ lkm.links[t].pc = "idle"
    /\ lkm.links[t].ops < MaxLinks
    /\ lkm' = [lkm EXCEPT !.links[t] =
                   [pc |-> "read", self |-> self, other |-> other, name |-> "x",
                    order |-> <<>>, got |-> 0, ops |-> lkm.links[t].ops + 1]]
    /\ UNCHANGED <<vfs, pathcfg, ret>>

\* lockMultiple, l.read().extra.inode of both locks: the processor spins
\* while an inode is write locked
LinkRead(t) ==
    /\ lkm.links[t].pc = "read"
    /\ ~WriteLocked(lkm.links[t].self)
    /\ ~WriteLocked(lkm.links[t].other)
    /\ lkm' = [lkm EXCEPT
                   !.links[t].pc = "write",
                   !.links[t].order =
                       lockMultiple(<<lkm.links[t].self, lkm.links[t].other>>,
                                    <<vfs[RamFs].filesystem.inodes[lkm.links[t].self].inode,
                                      vfs[RamFs].filesystem.inodes[lkm.links[t].other].inode>>)]
    /\ UNCHANGED <<vfs, pathcfg, ret>>

\* lockMultiple, lock.write() of the next lock: the processor spins while
\* the inode is write locked
LinkWrite(t) ==
    /\ lkm.links[t].pc = "write"
    /\ lkm.links[t].got < 2
    /\ ~WriteLocked(lkm.links[t].order[lkm.links[t].got + 1])
    /\ lkm' = [lkm EXCEPT !.links[t].got = @ + 1]
    /\ UNCHANGED <<vfs, pathcfg, ret>>

\* link with both locks held: the entry is pushed, the locks are dropped
LinkEnd(t) ==
    /\ lkm.links[t].pc = "write"
    /\ lkm.links[t].got = 2
    /\ vfs' = link(vfs, Node(RamFs, lkm.links[t].self), lkm.links[t].name,
                   Node(RamFs, lkm.links[t].other)).vfs
    /\ lkm' = [lkm EXCEPT !.links[t] = [LinkIdle EXCEPT !.ops = lkm.links[t].ops]]
    /\ UNCHANGED <<pathcfg, ret>>

NextLock ==
    \/ ~Mounted /\ SysMount(join(<<"", "mnt">>), "ramfs")
    \/ SysReturn
    \/ \E name \in {"a", "b"} : RamCreate(name)
    \/ \E t \in Cpus, self \in 1..MaxRamInodes, other \in 1..MaxRamInodes :
           LinkBegin(t, self, other)
    \/ \E t \in Cpus : LinkRead(t)
    \/ \E t \in Cpus : LinkWrite(t)
    \/ \E t \in Cpus : LinkEnd(t)

SpecLock == Init /\ [][NextLock]_vars

\* assert_has_not_been_called!: the function has run during the boot, the
\* assertion fails and the kernel panics
has_been_called(init) ==
    /\ Running
    /\ lkm' = [lkm EXCEPT !.res = LkmResult(init, "panic", None)]
    /\ UNCHANGED <<vfs, pathcfg, ret>>

\* arch::memory::init, VirtualFS::init and ModuleManager::init are called a
\* second time
memory_init == has_been_called("memory::init")
VirtualFS_init == has_been_called("VirtualFS::init")
ModuleManager_init == has_been_called("ModuleManager::init")

\* CDevManager::init is called a second time
CDevManager_init ==
    /\ Running
    /\ lkm' = [lkm EXCEPT !.dev_map = <<>>,
                          !.res = LkmResult("CDevManager::init", "OK", None)]
    /\ UNCHANGED <<vfs, pathcfg, ret>>

\* FileSystemManager::init is called a second time
FileSystemManager_init ==
    /\ Running
    /\ lkm' = [lkm EXCEPT !.fstypes = {},
                          !.res = LkmResult("FileSystemManager::init", "OK", None)]
    /\ UNCHANGED <<vfs, pathcfg, ret>>

\* FileSystemManager::registerFileSystem, called by a module through
\* lkm_api_register_fs
RegisterFileSystem(name) ==
    /\ Running
    /\ lkm' = [lkm EXCEPT !.fstypes = @ \cup {name}]
    /\ UNCHANGED <<vfs, pathcfg, ret>>

NextBoot ==
    \/ memory_init
    \/ VirtualFS_init
    \/ ModuleManager_init
    \/ CDevManager_init
    \/ FileSystemManager_init
    \/ \E major \in Majors, file_op \in FileOps : RegisterDevice(major, file_op)
    \/ \E name \in {"ramfs", "extfs"} : RegisterFileSystem(name)

SpecBoot == Init /\ [][NextBoot]_vars

\* The statements of _start that the boot processor runs, in order
StartCalls ==
    <<"logging::init", "idt::init", "fast_syscall::init", "memory::init",
      "gdt::init", "cpu::init", "driver::init", "drivers::init",
      "rcore_fs::init", "process::init", "ModuleManager::init",
      "CDevManager::init", "AP_CAN_INIT.store", "kmain">>

\* The statements of other_start, in order
OtherCalls == <<"idt::init", "gdt::init", "cpu::init", "fast_syscall::init", "kmain">>

\* _start up to the test of cpu_id: an application processor goes to the
\* loop, the boot processor goes on
start(c) ==
    /\ lkm.start.at[c].fn = "_start"
    /\ lkm' = [lkm EXCEPT !.start.at[c] = At(IF c # 0 THEN "spin" ELSE "boot", 0)]
    /\ UNCHANGED <<vfs, pathcfg, ret>>

\* The loop left whatever the flag holds
spin_skipped(c) ==
    /\ lkm.start.at[c].fn = "spin"
    /\ lkm' = [lkm EXCEPT !.start.at[c] = At("other_start", 0)]
    /\ UNCHANGED <<vfs, pathcfg, ret>>

\* while !AP_CAN_INIT.load(Ordering::Relaxed) {}: one load of the flag; the
\* loop goes round while the flag is clear and is left for other_start
\* when it is set
spin(c) ==
    /\ lkm.start.at[c].fn = "spin"
    /\ lkm' = IF lkm.start.AP_CAN_INIT
              THEN [lkm EXCEPT !.start.at[c] = At("other_start", 0)]
              ELSE lkm
    /\ UNCHANGED <<vfs, pathcfg, ret>>

\* The boot processor runs the next statement of _start; the store sets
\* AP_CAN_INIT
start_boot(c) ==
    /\ lkm.start.at[c].fn = "boot"
    /\ lkm.start.at[c].n < Len(StartCalls)
    /\ lkm' = [lkm EXCEPT
                 !.start.at[c].n = @ + 1,
                 !.start.AP_CAN_INIT =
                     @ \/ StartCalls[lkm.start.at[c].n + 1] = "AP_CAN_INIT.store"]
    /\ UNCHANGED <<vfs, pathcfg, ret>>

\* An application processor runs the next statement of other_start
other_start(c) ==
    /\ lkm.start.at[c].fn = "other_start"
    /\ lkm.start.at[c].n < Len(OtherCalls)
    /\ lkm' = [lkm EXCEPT !.start.at[c].n = @ + 1]
    /\ UNCHANGED <<vfs, pathcfg, ret>>

NextStart ==
    \/ \E c \in StartCpus : start(c)
    \/ \E c \in StartCpus : spin(c)
    \/ \E c \in StartCpus : start_boot(c)
    \/ \E c \in StartCpus : other_start(c)

SpecStart == Init /\ [][NextStart]_vars

\* Every processor keeps executing: none of them is scheduled, each runs its
\* own instruction stream from the entry point on
SpecStartLive ==
    /\ SpecStart
    /\ \A c \in StartCpus :
          /\ WF_vars(start(c))
          /\ WF_vars(spin(c))
          /\ WF_vars(start_boot(c))
          /\ WF_vars(other_start(c))

\* 1 << 31, in units of 2^30 ms
Infinity == 2

\* The uptime at which the clock of the model stops
MaxClock == 4

\* A PollFd
PollFd(fd, events) == [fd |-> fd, events |-> events, revents |-> {}]

\* The closure of sys_poll over one PollFd: revents and the events counted
poll_one(poll, files, status) ==
    IF poll.fd \notin files
    THEN [revents |-> {"ERR"}, events |-> 1]
    ELSE LET st == status[poll.fd]
             hup == IF st.error THEN {"HUP"} ELSE {}
             in_ == IF st.read /\ "IN" \in poll.events THEN {"IN"} ELSE {}
             out == IF st.write /\ "OUT" \in poll.events THEN {"OUT"} ELSE {}
         IN  [revents |-> hup \cup in_ \cup out,
              events |-> Cardinality(hup) + Cardinality(in_) + Cardinality(out)]

\* A condition that takes the timeout for expired as soon as the clock
\* reaches the deadline
RECURSIVE poll_condition_early(_, _, _, _, _, _, _, _)
poll_condition_early(polls, i, events, files, status, begin_time_ms, timeout_msecs, now) ==
    IF i > Len(polls)
    THEN IF events > 0
         THEN [kind |-> "Ok", val |-> events, polls |-> polls]
         ELSE IF timeout_msecs < Infinity /\ now - begin_time_ms >= timeout_msecs
              THEN [kind |-> "Ok", val |-> 0, polls |-> polls]
              ELSE [kind |-> "None", val |-> 0, polls |-> polls]
    ELSE IF polls[i].fd \in files /\ status[polls[i].fd].err
         THEN [kind |-> "Err", val |-> 0,
               polls |-> [polls EXCEPT ![i].revents = {}]]
         ELSE LET one == poll_one(polls[i], files, status)
              IN  poll_condition_early([polls EXCEPT ![i].revents = one.revents], i + 1,
                                 events + one.events, files, status,
                                 begin_time_ms, timeout_msecs, now)

\* The closure of sys_poll: the loop over polls up to the first descriptor
\* whose poll() fails, then the test of the events and of the clock.
\* kind "None": the condition does not hold yet
RECURSIVE poll_condition(_, _, _, _, _, _, _, _)
poll_condition(polls, i, events, files, status, begin_time_ms, timeout_msecs, now) ==
    IF i > Len(polls)
    THEN IF events > 0
         THEN [kind |-> "Ok", val |-> events, polls |-> polls]
         ELSE IF timeout_msecs < Infinity /\ now - begin_time_ms > timeout_msecs
              THEN [kind |-> "Ok", val |-> 0, polls |-> polls]
              ELSE [kind |-> "None", val |-> 0, polls |-> polls]
    ELSE IF polls[i].fd \in files /\ status[polls[i].fd].err
         THEN [kind |-> "Err", val |-> 0,
               polls |-> [polls EXCEPT ![i].revents = {}]]
         ELSE LET one == poll_one(polls[i], files, status)
              IN  poll_condition([polls EXCEPT ![i].revents = one.revents], i + 1,
                                 events + one.events, files, status,
                                 begin_time_ms, timeout_msecs, now)

\* The thread after the condition has been evaluated: it has returned, or it
\* waits for STDIN_INODE.pushed and SOCKET_ACTIVITY
poll_evaluated(begin_time_ms, timeout_msecs, c) ==
    [state |-> IF c.kind = "None" THEN "waiting" ELSE "returned",
     begin_time_ms |-> begin_time_ms, timeout_msecs |-> timeout_msecs,
     polls |-> c.polls, kind |-> c.kind, val |-> c.val,
     now |-> lkm.poll.uptime_msec]

\* Condvar::wait_events: the condition is evaluated when the call begins and
\* again whenever the thread runs after that, until it gives a result
wait_events(begin_time_ms, timeout_msecs, polls) ==
    poll_evaluated(begin_time_ms, timeout_msecs,
                   poll_condition(polls, 1, 0, lkm.poll.files, lkm.poll.status,
                                  begin_time_ms, timeout_msecs, lkm.poll.uptime_msec))

\* Syscall::sys_poll
sys_poll(polls, timeout_msecs) ==
    /\ lkm.poll.call.state = "idle"
    /\ lkm.poll.uptime_msec + timeout_msecs < MaxClock
    /\ lkm' = [lkm EXCEPT !.poll.call =
                 IF \E i \in 1..Len(polls) : polls[i].fd \notin lkm.poll.files
                 THEN [state |-> "returned", begin_time_ms |-> lkm.poll.uptime_msec,
                       timeout_msecs |-> timeout_msecs, polls |-> polls,
                       kind |-> "EINVAL", val |-> 0, now |-> lkm.poll.uptime_msec]
                 ELSE wait_events(lkm.poll.uptime_msec, timeout_msecs, polls)]
    /\ UNCHANGED <<vfs, pathcfg, ret>>

SysPoll(polls, timeout_msecs) == sys_poll(polls, timeout_msecs)

\* The timeout of sys_ppoll: the null pointer, or a TimeSpec and what
\* to_msec() gives for it
NullTimeSpec == [null |-> TRUE, msec |-> 0]
TimeSpec(msec) == [null |-> FALSE, msec |-> msec]

\* Syscall::sys_ppoll
SysPpoll(polls, timeout) ==
    sys_poll(polls, IF timeout.null THEN Infinity ELSE timeout.msec)

\* The thread in wait_events runs and evaluates the condition again
WaitEvents ==
    /\ lkm.poll.call.state = "waiting"
    /\ lkm' = [lkm EXCEPT !.poll.call =
                 wait_events(@.begin_time_ms, @.timeout_msecs, @.polls)]
    /\ UNCHANGED <<vfs, pathcfg, ret>>

\* The timer interrupt: the uptime grows
Tick ==
    /\ lkm.poll.uptime_msec < MaxClock
    /\ lkm' = [lkm EXCEPT !.poll.uptime_msec = @ + 1]
    /\ UNCHANGED <<vfs, pathcfg, ret>>

\* Input arrives, a socket changes, a peer hangs up: what poll() of the
\* file gives changes
PollEvent(fd, st) ==
    /\ lkm.poll.status[fd] # st
    /\ lkm' = [lkm EXCEPT !.poll.status[fd] = st]
    /\ UNCHANGED <<vfs, pathcfg, ret>>

\* Another thread of the process closes a descriptor
PollClose(fd) ==
    /\ fd \in lkm.poll.files
    /\ lkm' = [lkm EXCEPT !.poll.files = @ \ {fd}]
    /\ UNCHANGED <<vfs, pathcfg, ret>>

\* The thread is back in user mode and may call again
PollReturn ==
    /\ lkm.poll.call.state = "returned"
    /\ lkm' = [lkm EXCEPT !.poll.call = NoPoll]
    /\ UNCHANGED <<vfs, pathcfg, ret>>

PollSets ==
    {<<PollFd(0, {"IN"})>>, <<PollFd(1, {"IN", "OUT"})>>,
     <<PollFd(0, {"IN"}), PollFd(1, {"OUT"})>>, <<PollFd(0, {"IN"}), PollFd(2, {"IN"})>>}

\* Descriptor 0 is the standard input, descriptor 1 a socket
StdinStatuses == {Quiet, PollStatus(TRUE, FALSE, FALSE)}

SocketStatuses ==
    {Quiet, PollStatus(TRUE, TRUE, FALSE), PollStatus(FALSE, FALSE, TRUE), PollErr}

Timeouts == 0..(Infinity + 1)

NextPoll ==
    \/ \E polls \in PollSets, timeout_msecs \in Timeouts : SysPoll(polls, timeout_msecs)
    \/ \E polls \in PollSets, timeout \in {NullTimeSpec, TimeSpec(1)} : SysPpoll(polls, timeout)
    \/ WaitEvents
    \/ Tick
    \/ \E st \in StdinStatuses : PollEvent(0, st)
    \/ \E st \in SocketStatuses : PollEvent(1, st)
    \/ PollClose(1)
    \/ PollReturn

SpecPoll == Init /\ [][NextPoll]_vars

\* The clock advances, and a thread that waits in wait_events runs again
SpecPollLive == SpecPoll /\ WF_vars(Tick) /\ WF_vars(WaitEvents)

\* size_of::<LinuxDirent64>(), a packed struct of u64, u64, u16 and u8
DirentSize == 19

\* The calls of sys_getdents64 that are followed
MaxDents == 3

\* DirentBufWriter::new
DirentBufWriter_new(buf_size) == [rest_size |-> buf_size, written_size |-> 0, buf |-> <<>>]

\* The length try_write gives the record of name: aligned up to 8
dirent_len(name) == ((DirentSize + NameLen(name) + 1 + 7) \div 8) * 8

\* DirentBufWriter::try_write
try_write(writer, inode, type_, name) ==
    LET len == dirent_len(name)
    IN  IF writer.rest_size < len
        THEN [ok |-> FALSE, writer |-> writer]
        ELSE [ok |-> TRUE,
              writer |-> [rest_size |-> writer.rest_size - len,
                          written_size |-> writer.written_size + len,
                          buf |-> Append(writer.buf,
                                         [ino |-> inode, reclen |-> len,
                                          type_ |-> type_, name |-> name])]]

\* A try_write that takes every record into the buffer
try_write_all(writer, inode, type_, name) ==
    [ok |-> TRUE,
     writer |-> [rest_size |-> writer.rest_size,
                 written_size |-> writer.written_size + dirent_len(name),
                 buf |-> Append(writer.buf,
                                [ino |-> inode, reclen |-> dirent_len(name),
                                 type_ |-> type_, name |-> name])]]

\* FileHandle::read_entry: the name at the offset, and the file with its
\* offset moved on
read_entry(file) ==
    IF "WRONLY" \in file.options
    THEN [ok |-> FALSE, name |-> "", err |-> "InvalidParam", file |-> file]
    ELSE LET name == get_entry(file.inode_container, file.offset)
         IN  IF name.ok
             THEN [ok |-> TRUE, name |-> name.name, err |-> "OK",
                   file |-> [file EXCEPT !.offset = @ + 1]]
             ELSE [ok |-> FALSE, name |-> "", err |-> name.err, file |-> file]

\* The loop of sys_getdents64
RECURSIVE getdents_loop(_, _, _)
getdents_loop(file, root, writer) ==
    LET name == read_entry(file)
    IN  IF ~name.ok
        THEN [err |-> IF name.err = "EntryNotFound" THEN "OK" ELSE name.err,
              file |-> name.file, writer |-> writer]
        ELSE LET target == find(file.inode_container, root, name.name)
             IN  IF ~target.ok
                 THEN [err |-> target.err, file |-> name.file, writer |-> writer]
                 ELSE LET w == try_write(writer, metadata_inode(target.val),
                                         metadata_type(target.val), name.name)
                      IN  IF w.ok
                          THEN getdents_loop(name.file, root, w.writer)
                          ELSE [err |-> "OK", file |-> name.file, writer |-> writer]

\* sys_getdents64 after its loop: the file is left as the loop left it, and
\* on Ok the size and the records written are what the caller gets
getdents_done(fd, buf_size, done) ==
    /\ lkm' = [lkm EXCEPT
                 !.files[fd] = done.file,
                 !.dents = Append(@, [fd |-> fd, buf_size |-> buf_size, err |-> done.err,
                                      written_size |-> done.writer.written_size,
                                      buf |-> IF done.err = "OK" THEN done.writer.buf
                                              ELSE <<>>])]
    /\ ret' = Return("getdents64", <<>>, FALSE, done.err, NoOut,
                     lkm.files[fd].inode_container, 0, done.writer.written_size)

\* Syscall::sys_getdents64
SysGetdents64(fd, buf_size) ==
    /\ ret.op = "idle"
    /\ fd \in 1..Len(lkm.files)
    /\ Len(lkm.dents) < MaxDents
    /\ IF metadata_type(lkm.files[fd].inode_container) # Dir
       THEN /\ ret' = Return("getdents64", <<>>, FALSE, "ENOTDIR", NoOut,
                             lkm.files[fd].inode_container, 0, 0)
            /\ UNCHANGED lkm
       ELSE getdents_done(fd, buf_size,
                getdents_loop(lkm.files[fd],
                              \/ has_reached_root(pathcfg, lkm.files[fd].inode_container)
                              \/ has_reached_root(init_root, lkm.files[fd].inode_container),
                              DirentBufWriter_new(buf_size)))
    /\ UNCHANGED <<vfs, pathcfg>>

\* The directories and the file that are opened, and the sizes of the buffers
DentPaths == {<<Sep>>, join(<<"", "etc">>), join(<<"", "mnt">>), join(<<"", "b">>)}
DentFlags == {{}, {"WRONLY"}}
BufSizes == {16, 24, 56, 256}

NextDents ==
    \/ \E path \in DentPaths, flags \in DentFlags : SysOpenat(path, flags)
    \/ \E fd \in 1..MaxFiles, buf_size \in BufSizes : SysGetdents64(fd, buf_size)
    \/ SysReturn

SpecDents == Init /\ [][NextDents]_vars

\* sys_unlinkat: what unlink did is returned
unlink_unlinked(path, o, did) ==
    /\ ret' = Return("unlink", path, FALSE, did.err, o, o.r.node, 0, 0)
    /\ vfs' = did.vfs

\* sys_unlinkat with what find_name_by_child gave for the file in its parent
unlink_named(path, wraps, o, name) ==
    IF ~name.ok
    THEN /\ ret' = Return("unlink", path, FALSE, name.err, o, o.r.node, 0, 0)
         /\ UNCHANGED vfs
    ELSE unlink_unlinked(path, o, unlink(vfs, o.r.parent, name.name, wraps))

\* sys_unlinkat with its path resolved
unlink_at(path, wraps, o) ==
    CASE o.r.kind = "Err" ->
           /\ ret' = Return("unlink", path, FALSE, o.r.err, o, NoNode, 0, 0)
           /\ UNCHANGED vfs
      [] o.r.kind = "IsDir" ->
           /\ ret' = Return("unlink", path, FALSE, "EISDIR", o, NoNode, 0, 0)
           /\ UNCHANGED vfs
      [] o.r.kind = "NotExist" ->
           /\ ret' = Return("unlink", path, FALSE, "ENOENT", o, NoNode, 0, 0)
           /\ UNCHANGED vfs
      [] OTHER -> unlink_named(path, wraps, o, find_name_by_child(o.r.parent, o.r.node, 0))

\* Syscall::sys_unlinkat with dirfd = AT_FDCWD
SysUnlinkat(path, wraps) ==
    /\ ret.op = "idle"
    /\ unlink_at(path, wraps, path_resolve_counted(pathcfg, pathcfg.cwd, path, FALSE))
    /\ UNCHANGED <<pathcfg, lkm>>

\* The hard links made and the paths unlinked
UnlinkLinks ==
    {<<join(<<"", "mnt", "f">>), join(<<"", "mnt", "g">>)>>,
     <<join(<<"", "b">>), join(<<"", "c">>)>>,
     <<join(<<"", "etc", "passwd">>), join(<<"", "p">>)>>}
UnlinkPaths ==
    {join(<<"", "mnt", "f">>), join(<<"", "mnt", "g">>), join(<<"", "b">>),
     join(<<"", "c">>), join(<<"", "a">>), join(<<"", "p">>), join(<<"", "etc">>),
     join(<<"", "etc", "passwd">>), join(<<"", "nope">>)}

\* Files are created, linked and unlinked in the boot file system and in a
\* ramfs mounted on /mnt
NextUnlink ==
    \/ ~Mounted /\ SysMount(join(<<"", "mnt">>), "ramfs")
    \/ SysMknodat(join(<<"", "mnt", "f">>))
    \/ \E p \in UnlinkLinks : SysLinkat(p[1], p[2])
    \/ \E path \in UnlinkPaths, wraps \in BOOLEAN : SysUnlinkat(path, wraps)
    \/ SysReturn

SpecUnlink == Init /\ [][NextUnlink]_vars

\* The descriptors of the process, and the system calls that are followed
Fds == {0, 1, 2}
MaxCalls == 4

\* FileHandle::new_with_cdev: the handle of a device whose open() gave user_data
FileHandle_new_with_cdev(inode_container, options, user_data) ==
    [FileHandle_new(inode_container, options) EXCEPT
         !.overlay_file_operations = 1, !.belonging_device = 1, !.user_data = user_data]

\* Drop for FileHandle: close(user_data) of the driver when the handle has
\* overlay_file_operations; closed is the calls of close so far
FileHandle_drop(closed, file) ==
    IF file.overlay_file_operations # 0 THEN Append(closed, file.user_data) ELSE closed

\* BTreeMap::remove(key): the map without the key
remove(map, key) == [k \in DOMAIN map \ {key} |-> map[k]]

\* The handles of proc.files.remove(&fd) are dropped
files_removed(proc, fd) ==
    IF fd \in DOMAIN proc.files
    THEN [proc EXCEPT !.files = remove(@, fd),
                      !.closed = FileHandle_drop(@, proc.files[fd])]
    ELSE proc

\* Syscall::sys_dup2
SysDup2(fd1, fd2) ==
    /\ lkm.proc.calls < MaxCalls
    /\ LET proc == files_removed(lkm.proc, fd2)
       IN  lkm' = [lkm EXCEPT !.proc =
                     IF fd1 \notin DOMAIN proc.files
                     THEN [proc EXCEPT !.calls = @ + 1,
                                       !.res = [op |-> "dup2", fd1 |-> fd1, fd2 |-> fd2,
                                                err |-> "EBADF", val |-> 0]]
                     ELSE [proc EXCEPT !.files = insert(@, fd2, proc.files[fd1]),
                                       !.calls = @ + 1,
                                       !.res = [op |-> "dup2", fd1 |-> fd1, fd2 |-> fd2,
                                                err |-> "OK", val |-> fd2]]]
    /\ UNCHANGED <<vfs, pathcfg, ret>>

\* Syscall::sys_close
SysClose(fd) ==
    /\ lkm.proc.calls < MaxCalls
    /\ lkm' = [lkm EXCEPT !.proc =
                 [files_removed(lkm.proc, fd) EXCEPT
                      !.calls = @ + 1,
                      !.res = [op |-> "close", fd1 |-> fd, fd2 |-> fd,
                               err |-> IF fd \in DOMAIN lkm.proc.files THEN "OK" ELSE "EBADF",
                               val |-> 0]]]
    /\ UNCHANGED <<vfs, pathcfg, ret>>

\* What a descriptor holds when the calls begin: nothing, a file of the boot
\* file system, or a device whose open() has given the handle id fd + 1
FdStates(fd) ==
    {FileHandle_new(root_inode(1), {}),
     FileHandle_new_with_cdev(root_inode(1), {}, fd + 1)}

ProcFiles ==
    UNION {[S -> UNION {FdStates(fd) : fd \in S}] : S \in SUBSET Fds}

\* A process that has opened some files and devices, each once
InitFd ==
    /\ vfs = <<VirtualFS(init_mount_sfs, EmptyMap, NoNode)>>
    /\ pathcfg = [root |-> root_inode(1), cwd |-> root_inode(1)]
    /\ ret = Idle
    /\ \E files \in ProcFiles :
           /\ \A fd \in DOMAIN files : files[fd] \in FdStates(fd)
           /\ lkm = [LkmInit EXCEPT !.proc.files = files]

NextFd ==
    \/ \E fd1 \in Fds, fd2 \in Fds : SysDup2(fd1, fd2)
    \/ \E fd \in Fds : SysClose(fd)

SpecFd == InitFd /\ [][NextFd]_vars

\* LockedINode::read_at of ramfs with a buffer of buflen bytes: src is the
\* content from the offset on, cut to the buffer, and buf.copy_from_slice(src)
\* panics unless src is as long as buf
read_at(file, offset, buflen) ==
    LET len == Len(file.content)
        src == SubSeq(file.content, Min(offset, len) + 1, Min(offset + buflen, len))
    IN  IF file.type_ = Dir
        THEN [op |-> "read_at", offset |-> offset, buflen |-> buflen,
              kind |-> "Err", err |-> "IsDir", val |-> 0, buf |-> <<>>]
        ELSE IF Len(src) # buflen
        THEN [op |-> "read_at", offset |-> offset, buflen |-> buflen,
              kind |-> "panic", err |-> "panic", val |-> 0, buf |-> <<>>]
        ELSE [op |-> "read_at", offset |-> offset, buflen |-> buflen,
              kind |-> "Ok", err |-> "OK", val |-> Len(src), buf |-> src]

\* read_at is called on the inode
RamReadAt(offset, buflen) ==
    /\ lkm' = [lkm EXCEPT !.ramfile.res = read_at(lkm.ramfile, offset, buflen)]
    /\ UNCHANGED <<vfs, pathcfg, ret>>

\* The longest content, the contents, and the offsets and buffers of the reads
MaxContent == 3
Contents == UNION {[1..n -> {"a", "b"}] : n \in 0..MaxContent}
ReadOffsets == 0..(MaxContent + 1)
ReadBufs == (0..MaxContent) \cup {SymlinkBuf}

\* An inode of ramfs of any type with any content
InitRead ==
    /\ vfs = <<VirtualFS(init_mount_sfs, EmptyMap, NoNode)>>
    /\ pathcfg = [root |-> root_inode(1), cwd |-> root_inode(1)]
    /\ ret = Idle
    /\ \E type_ \in {File, SymLink, CharDevice, Dir}, content \in Contents :
           lkm = [LkmInit EXCEPT !.ramfile = RamFile(type_, content)]

NextRead == \E offset \in ReadOffsets, buflen \in ReadBufs : RamReadAt(offset, buflen)

SpecRead == InitRead /\ [][NextRead]_vars

Next ==
    \/ \E target \in OpPaths, fstype \in FsTypeArgs : SysMount(target, fstype)
    \/ \E path \in OpPaths : SysChdir(path)
    \/ \E path \in OpPaths : SetRoot(path)
    \/ \E path \in MkdirPaths : SysMkdirat(path)
    \/ \E path \in UpPaths, follow \in BOOLEAN : PathResolve(path, follow)
    \/ \E len \in BufLens : SysGetcwd(len)
    \/ SysReturn

Spec == Init /\ [][Next]_vars

\* Path resolution alone, over the longer paths, wherever the process stands
\* in the initial file system
NextPath ==
    \/ \E path \in PathsUpTo(Names, 1) : SysChdir(path)
    \/ \E path \in Paths, follow \in BOOLEAN : PathResolve(path, follow)
    \/ SysReturn

SpecPath == Init /\ [][NextPath]_vars

\* Paths of the calls that change directories
DirMounts == {join(<<"", "mnt">>), join(<<"", "etc">>), join(<<"", "mnt", "sub">>)}
DirMkdirs == {join(<<"", "mnt", "sub">>)}
DirMknods == {join(<<"", "mnt", "f">>), join(<<"", "f">>)}
DirRenames ==
    {<<join(<<"", "mnt", "f">>), join(<<"", "mnt", "g">>)>>,
     <<join(<<"", "mnt", "f">>), join(<<"", "g">>)>>,
     <<join(<<"", "b">>), join(<<"", "mnt", "g">>)>>,
     <<join(<<"", "b">>), join(<<"", "mnt", "f">>)>>,
     <<join(<<"", "mnt", "sub">>), join(<<"", "mnt", "sub", "g">>)>>}
DirLinks ==
    {<<join(<<"", "mnt", "f">>), join(<<"", "etc", "g">>)>>,
     <<join(<<"", "mnt", "f">>), join(<<"", "mnt", "g">>)>>}
DirRmdirs == {join(<<"", "">>), join(<<"", "mnt">>), join(<<"", "mnt", "sub">>)}

\* The calls that change directories, over mounts of ramfs
NextDir ==
    \/ \E target \in DirMounts : SysMount(target, "ramfs")
    \/ \E path \in DirMkdirs : SysMkdirat(path)
    \/ \E path \in DirMknods : SysMknodat(path)
    \/ \E p \in DirRenames, wraps \in BOOLEAN : SysRenameat(p[1], p[2], wraps)
    \/ \E p \in DirLinks : SysLinkat(p[1], p[2])
    \/ \E path \in DirRmdirs, wraps \in BOOLEAN : SysRmdir(path, wraps)
    \/ SysReturn

SpecDir == Init /\ [][NextDir]_vars

----------------------------------------------------------------------------
(* Vocabulary of the properties *)

Mounts == 1..Len(vfs)

\* The last component of a path
LastPart(path) == split(path)[Len(split(path))]

\* The mounts some Arc still holds: VIRTUAL_FS, the mounts of the process's
\* root and cwd, every child in the map of a held mount, and the mount of a
\* held mount's attachment point.
RECURSIVE LiveFrom(_, _)
LiveFrom(S, n) ==
    IF n = 0 THEN S
    ELSE LiveFrom(S \cup UNION {{vfs[m].mountpoints[k] : k \in DOMAIN vfs[m].mountpoints} : m \in S}
                    \cup {vfs[m].self_mountpoint.vfs : m \in {x \in S : vfs[x].self_mountpoint # NoNode}},
                  n - 1)

LiveMounts == LiveFrom({1, pathcfg.root.vfs, pathcfg.cwd.vfs}, Len(vfs))

\* The directory above n in the tree of mounts: its parent in its own file
\* system, or, for the root of a mount, the directory the mount is attached to
\* (NoNode above the root of VIRTUAL_FS).
Above(n) ==
    IF n.inode = RootIdx THEN vfs[n.vfs].self_mountpoint
    ELSE NodeIn(n.vfs, n.fs, inode_of(n).parent)

\* n is the directory top or lies below it
RECURSIVE WithinFrom(_, _, _)
WithinFrom(top, n, fuel) ==
    IF n = NoNode \/ fuel = 0 THEN FALSE
    ELSE IF n = top THEN TRUE
    ELSE WithinFrom(top, Above(n), fuel - 1)

TotalInodes == inode_count(Len(vfs))

Within(top, n) == WithinFrom(top, n, TotalInodes + 1)

\* The mount nodes a PathResolveResult carries
NodesOf(r) == {r.node, r.parent} \ {NoNode}

----------------------------------------------------------------------------
(* C1..C6: the mount graph *)

\* C1: whenever the cwd is the process root or lies below it, no node that
\* path_resolve returns (dir, file or parent) lies outside the process root,
\* and ".." looked up at the process root is the process root.
C1_NoEscape ==
    /\ find(pathcfg.root, has_reached_root(pathcfg, pathcfg.root), "..") = Ok(pathcfg.root)
    /\ (ret.op = "resolve" /\ Within(pathcfg.root, pathcfg.cwd))
          => \A n \in NodesOf(ret.res) : Within(pathcfg.root, n)

\* C2: a mount on a directory whose inode id is already a key of its mount's
\* child-mount map fails, and the child mount that was there stays.
C2_SecondMountRejected ==
    (ret.op = "mount" /\ ret.had # 0)
        => /\ ret.err # "OK"
           /\ vfs[ret.node.vfs].mountpoints[metadata_inode(ret.node)] = ret.had

\* C3: every mount still held, except the initial one, is the child that its
\* attachment point's mount records for the attachment point's inode id; the
\* initial mount has no attachment point.
C3_BothSidesAgree ==
    /\ vfs[1].self_mountpoint = NoNode
    /\ \A m \in LiveMounts \ {1} :
          LET A == vfs[m].self_mountpoint
          IN  /\ A # NoNode
              /\ metadata_inode(A) \in DOMAIN vfs[A.vfs].mountpoints
              /\ vfs[A.vfs].mountpoints[metadata_inode(A)] = m

\* The mounts met by following attachment points from m, m first, until the
\* initial mount, a mount met before, or a mount without attachment point
RECURSIVE AttachChain(_, _)
AttachChain(m, seen) ==
    IF m = 1 \/ m \in seen \/ vfs[m].self_mountpoint = NoNode THEN <<m>>
    ELSE <<m>> \o AttachChain(vfs[m].self_mountpoint.vfs, seen \cup {m})

\* C4: following attachment points from any mount ends at the initial mount
\* and meets no mount twice.
C4_MountTree ==
    \A m \in Mounts :
        LET chain == AttachChain(m, {})
        IN  /\ chain[Len(chain)] = 1
            /\ \A i, j \in 1..Len(chain) : i # j => chain[i] # chain[j]

\* A mount attached inside another mounted file system was created
C4_Witness == \E m \in Mounts : Len(AttachChain(m, {})) >= 3

\* C5 (for a target whose path ends in a name): after sys_mount succeeds,
\* resolving the target path again gives the root of the new mount.
C5_MountVisible ==
    (ret.op = "mount" /\ ret.err = "OK" /\ LastPart(ret.path) \notin {"", ".", ".."})
        => path_resolve(pathcfg, pathcfg.cwd, ret.path, FALSE) = IsDir(root_inode(ret.new))


\* m is the child its attachment point's mount records for the attachment
\* point's inode id
Attached(m) ==
    LET A == vfs[m].self_mountpoint
    IN  /\ A # NoNode
        /\ metadata_inode(A) \in DOMAIN vfs[A.vfs].mountpoints
        /\ vfs[A.vfs].mountpoints[metadata_inode(A)] = m

\* The parent directory of A in A's owning mount
ParentInMount(A) == NodeIn(A.vfs, A.fs, inode_of(A).parent)

\* Going up from the attachment point A: the parent of the first attachment
\* point that is not itself the root of a mount; the root of VIRTUAL_FS when
\* the attachment points run out.
RECURSIVE ParentAcross(_)
ParentAcross(A) ==
    IF A.inode # RootIdx THEN ParentInMount(A)
    ELSE IF vfs[A.vfs].self_mountpoint = NoNode THEN A
    ELSE ParentAcross(vfs[A.vfs].self_mountpoint)

\* The process stands in /mnt/sub, a file system being mounted on /mnt of the
\* initial file system, whose root is the process root
InMntSub ==
    /\ pathcfg.root = root_inode(1)
    /\ pathcfg.cwd.vfs # 1
    /\ Attached(pathcfg.cwd.vfs)
    /\ vfs[pathcfg.cwd.vfs].self_mountpoint = Node(1, 4)
    /\ inode_find(root_inode(pathcfg.cwd.vfs), "sub") = Ok(pathcfg.cwd)

\* S2: from /mnt/sub, "../.." is the root of the initial file system
C6_Scenario ==
    (InMntSub /\ ret.op = "resolve" /\ ret.path = join(<<"..", "..">>))
        => ret.res = IsDir(root_inode(1))

\* C6 as claimed: ".." on the root of a mount attached at A, when that root is
\* not the process root, is the parent directory of A in A's owning mount.
C6_ParentOfAttachment ==
    /\ C6_Scenario
    /\ \A m \in LiveMounts :
          (Attached(m) /\ ~has_reached_root(pathcfg, root_inode(m)))
              => find(root_inode(m), FALSE, "..") = Ok(ParentInMount(vfs[m].self_mountpoint))

\* C6 as amended: ".." on the root of a mount attached at A, when that root is
\* not the process root, is the parent directory of A in A's owning mount when
\* A is not itself the root of a mount, and else what going further up from A
\* gives; it is never a node of the child mount.
C6_ParentAcrossMounts ==
    /\ C6_Scenario
    /\ \A m \in LiveMounts :
          (Attached(m) /\ ~has_reached_root(pathcfg, root_inode(m)))
              => LET up == find(root_inode(m), FALSE, "..")
                 IN  /\ up = Ok(ParentAcross(vfs[m].self_mountpoint))
                     /\ up.val.vfs # m

\* "../.." was resolved from /mnt/sub
C6_Witness == InMntSub /\ ret.op = "resolve" /\ ret.path = join(<<"..", "..">>)

----------------------------------------------------------------------------
(* C7..C10: path resolution *)

\* The same path resolved without following a last symlink
NoFollow(path) == path_resolve(pathcfg, pathcfg.cwd, path, FALSE)

\* The directory entry called name in the directory d, NoNode if none
DirEntry(d, name) ==
    LET file == inode_of(d)
        k == child_index(file.children, name, 1)
    IN  IF file.type_ # Dir \/ k = 0 THEN NoNode
        ELSE NodeIn(d.vfs, entry_fs(d, file.children[k]), file.children[k].inode)

\* C7: when the last component names an existing regular file, path_resolve
\* that follows a last symlink gives IsFile with that file, the directory
\* holding it as parent and the last component as name.
C7_FileNameParent ==
    (ret.op = "resolve" /\ ret.follow)
        => LET nf == NoFollow(ret.path)
           IN  (nf.kind = "IsFile" /\ metadata_type(nf.node) = File)
                   => ret.res = IsFile(nf.node, nf.parent, LastPart(ret.path))

\* What the text of the symlink s names, read from the directory d holding s
LinkTarget(d, s) == path_resolve(pathcfg, d, inode_of(s).content, TRUE)

\* The path with its last component taken off: the directory it is looked up in
DirPath(path) ==
    LET parts == split(path)
    IN  join(Append(SubSeq(parts, 1, Len(parts) - 1), ""))

\* C8: when the last component is a symlink to an existing regular file,
\* path_resolve gives IsFile of the link's target when it follows, and IsFile
\* of the symlink, the entry of that name in its directory, when it does not,
\* having read no more symlinks than reaching that directory takes.
C8_LastSymlink ==
    ret.op = "resolve"
        => LET nf == NoFollow(ret.path)
               target == LinkTarget(nf.parent, nf.node)
           IN  (/\ nf.kind = "IsFile"
                /\ metadata_type(nf.node) = SymLink
                /\ target.kind = "IsFile"
                /\ metadata_type(target.node) = File)
                   => IF ret.follow
                      THEN /\ ret.res.kind = "IsFile"
                           /\ ret.res.node = target.node
                      ELSE /\ ret.res.kind = "IsFile"
                           /\ metadata_type(ret.res.node) = SymLink
                           /\ ret.res.node = DirEntry(ret.res.parent, LastPart(ret.path))
                           /\ ret.c = path_resolve_counted(pathcfg, pathcfg.cwd,
                                                            DirPath(ret.path), TRUE).c

\* S3: "/a" was resolved, following, to the file /b
C8_Witness ==
    /\ ret.op = "resolve" /\ ret.path = join(<<"", "a">>) /\ ret.follow
    /\ ret.res.kind = "IsFile" /\ ret.res.node = Node(1, 6)

\* C9: every call of path_resolve ends with a result: it reads at most 40
\* symlinks and none deeper than 10 levels of nested expansion; the cycle
\* /x -> /y -> /x and the self-nesting /r -> r/b end in SymLoop.
C9_Bounded ==
    ret.op # "idle"
        => /\ FollowMax - ret.c.follow \in 0..FollowMax
           /\ ret.c.deepest \in 0..DepthMax
           /\ (ret.follow /\ ret.path \in {join(<<"", "x">>), join(<<"", "r">>)})
                  => ret.res = Failed("SymLoop")

\* A resolution used up all 40 follows and failed with SymLoop
C9_Witness ==
    ret.op = "resolve" /\ ret.c.follow = 0 /\ ret.res = Failed("SymLoop")

\* The path made of the first k components of parts
Prefix(parts, k) == join(SubSeq(parts, 1, k))

\* The first k components resolved as a path of their own, following
PrefixResult(parts, k) ==
    path_resolve(pathcfg, pathcfg.cwd, Prefix(parts, k), TRUE)

\* C10: when the components before an interior component lead through
\* directories, the resolution fails with NotDir if that component (symlinks
\* expanded) is a file, and with EntryNotFound if it is missing or a symlink
\* to nothing.
C10_InteriorErrors ==
    ret.op = "resolve"
        => LET parts == split(ret.path)
               interior == {k \in 1..(Len(parts) - 1) : parts[k] # ""}
           IN  \A k \in interior :
                  (\A j \in interior : j < k => PrefixResult(parts, j).kind = "IsDir")
                      => /\ PrefixResult(parts, k).kind = "IsFile"
                              => ret.res = Failed("NotDir")
                         /\ PrefixResult(parts, k).kind = "NotExist"
                              => ret.res = Failed("EntryNotFound")

\* A path through the dangling symlink /dang was resolved
C10_Witness ==
    /\ ret.op = "resolve" /\ ret.path = join(<<"dang", "b">>)
    /\ pathcfg.cwd = root_inode(1)
    /\ ret.res = Failed("EntryNotFound")

----------------------------------------------------------------------------
(* C11..C12: the ends of resolve_path *)

\* Every mount node there is
AllNodes == UNION {{Node(m, i) : i \in 1..Len(vfs[m].filesystem.inodes)} : m \in Mounts}

\* The directory the last component of path is looked up in: what the path
\* without its last component resolves to
LastDir(path) == path_resolve(pathcfg, pathcfg.cwd, DirPath(path), TRUE)

\* C11: when the components before the last lead through directories and the
\* last component is no entry of the final directory, the result is NotExist
\* with that directory as parent and the last component as name; an error of
\* the lookup of the last component other than EntryNotFound is the error of
\* the resolution.
C11_LastPartNotExist ==
    /\ ret.op = "resolve"
          => LET d == LastDir(ret.path)
                 last == LastPart(ret.path)
             IN  (/\ d.kind = "IsDir"
                  /\ last \notin {"", ".", ".."}
                  /\ DirEntry(d.node, last) = NoNode)
                     => ret.res = NotExist(d.node, last)
    /\ \A n \in AllNodes, name \in Names :
          LET next == find(n, has_reached_root(pathcfg, n), name)
          IN  (~next.ok /\ next.err # "EntryNotFound")
                  => resolve_last_part(pathcfg, n, name) = Failed(next.err)

\* "etc/b" was resolved from the root: /etc has no entry b
C11_Witness ==
    /\ ret.op = "resolve" /\ ret.path = join(<<"etc", "b">>)
    /\ pathcfg.cwd = root_inode(1)
    /\ ret.res = NotExist(Node(1, 2), "b")
    /\ resolve_last_part(pathcfg, Node(1, 3), "b") = Failed("NotDir")

\* The components of a path that are not empty
NonEmpty(parts) == SelectSeq(parts, LAMBDA part : part # "")

\* The directory a resolution of path begins at
StartOf(path) == IF starts_with_slash(path) THEN pathcfg.root ELSE pathcfg.cwd

\* The non-empty components of path resolved one after the other from the
\* directory the resolution begins at
Skipped(path, follow) ==
    path_resolve(pathcfg, StartOf(path), join(NonEmpty(split(path))), follow)

\* The two beginnings: a path starting with "/" resolves the same from every
\* cwd, directory or not; any other path fails with NotDir from a cwd that
\* is no directory.
C12_Begins ==
    /\ (ret.op = "resolve" /\ starts_with_slash(ret.path))
          => \A n \in AllNodes : path_resolve(pathcfg, n, ret.path, ret.follow) = ret.res
    /\ (ret.op = "resolve" /\ ~starts_with_slash(ret.path))
          => \A n \in AllNodes :
                metadata_type(n) # Dir
                    => path_resolve(pathcfg, n, ret.path, ret.follow) = Failed("NotDir")

\* C12 as claimed: a path starting with "/" is resolved from the caller's
\* root whatever the cwd, any other path from the cwd and with NotDir when
\* the cwd is no directory; the result is that of the path's non-empty
\* components, the empty ones of repeated or trailing "/" being skipped.
C12_EmptySkipped ==
    /\ C12_Begins
    /\ ret.op = "resolve" => ret.res = Skipped(ret.path, ret.follow)

\* What a trailing "/" makes of the result d of the components before it,
\* symlinks followed
AsInterior(d) ==
    CASE d.kind = "IsFile" -> Failed("NotDir")
      [] d.kind = "NotExist" -> Failed("EntryNotFound")
      [] OTHER -> d

\* C12 as amended: the beginnings as claimed; empty components of a repeated
\* "/" are skipped; a trailing "/" makes the component before it an interior
\* one: the result is the directory it leads to, NotDir if it is a file and
\* EntryNotFound if it is missing.
C12_TrailingSlash ==
    /\ C12_Begins
    /\ ret.op = "resolve"
          => IF LastPart(ret.path) = "" /\ NonEmpty(split(ret.path)) # <<>>
             THEN ret.res = AsInterior(Skipped(ret.path, TRUE))
             ELSE ret.res = Skipped(ret.path, ret.follow)

\* "b/" was resolved from the root, where b is a file
C12_Witness ==
    /\ ret.op = "resolve" /\ ret.path = join(<<"b", "">>)
    /\ pathcfg.cwd = root_inode(1)
    /\ ret.res = Failed("NotDir")

----------------------------------------------------------------------------
(* C13..C14: sys_getcwd *)

\* The directories one lookup of an entry's name leads to from the directory n
Children(n) ==
    IF metadata_type(n) # Dir THEN {}
    ELSE {find(n, FALSE, inode_of(n).children[k].name).val :
              k \in 1..Len(inode_of(n).children)}

\* The nodes that lookups of names lead to from the nodes of S, S included
RECURSIVE DownFrom(_, _)
DownFrom(S, n) ==
    IF n = 0 THEN S ELSE DownFrom(S \cup UNION {Children(d) : d \in S}, n - 1)

\* n is the process root or a descendant of it: a path of names leads from
\* the process root to n
Reachable(n) == n \in DownFrom({pathcfg.root}, TotalInodes)

\* C13: when the cwd is the process root or a descendant of it and the
\* buffer is long enough, sys_getcwd gives a path starting with "/" that
\* resolves from the process root to a directory of the cwd's mount with the
\* cwd's inode id.
C13_GetcwdResolves ==
    (ret.op = "getcwd" /\ ret.err # "ERANGE" /\ Reachable(pathcfg.cwd))
        => /\ ret.err = "OK"
           /\ starts_with_slash(ret.path)
           /\ LET r == path_resolve(pathcfg, pathcfg.root, ret.path, TRUE)
              IN  /\ r.kind = "IsDir"
                  /\ r.node.vfs = pathcfg.cwd.vfs
                  /\ metadata_inode(r.node) = metadata_inode(pathcfg.cwd)

\* C14: when the buffer is long enough, sys_getcwd gives "(unreachable)"
\* whenever the cwd is neither the process root nor a descendant of it,
\* wherever the process root lies, without failing and without walking on for
\* ever; it never gives "(unreachable)" for the process root or a descendant.
C14_UnreachableExactly ==
    (ret.op = "getcwd" /\ ret.err # "ERANGE")
        => IF Reachable(pathcfg.cwd)
           THEN ret.path # Unreachable
           ELSE ret.err = "OK" /\ ret.path = Unreachable

----------------------------------------------------------------------------
(* C15..C17: calls that change directories.  A step of a call is told by   *)
(* ret: the process was idle before it, and ret' is what the call returns. *)

\* The step is a call of op
Called(op) == ret.op = "idle" /\ ret'.op = op

\* A sys_renameat whose old path names an entry with a parent directory and
\* whose new path names a place in a directory of another mount: a missing
\* name there, or a file
RenameAcross ==
    /\ Called("rename")
    /\ ret'.node # NoNode
    /\ ret'.res.kind \in {"NotExist", "IsFile"}
    /\ ret'.node.vfs # ret'.res.parent.vfs

C16_LinkAcrossMounts ==
    [][(/\ Called("link")
        /\ ret'.node # NoNode
        /\ ret'.res.kind = "NotExist"
        /\ ret'.node.vfs # ret'.res.parent.vfs)
          => (ret'.err = "NotSameFs" /\ vfs' = vfs)]_vars

\* n is the root directory of a mounted file system
IsMountRoot(n) == n # NoNode /\ n.fs = n.vfs /\ n.inode = RootIdx

\* C17: a sys_rmdir of a path that resolves to the root directory of a
\* mounted file system fails with Busy and changes no directory.
C17_RmdirMountRoot ==
    [][(Called("rmdir") /\ ret'.res.kind = "IsDir" /\ IsMountRoot(ret'.res.node))
          => (ret'.err = "Busy" /\ vfs' = vfs)]_vars

----------------------------------------------------------------------------
(* Kernel-VM arena *)

\* ceil(size / PAGE_SIZE)
CeilPages(size) == IF size.rem = 0 THEN size.pages ELSE size.pages + 1

\* The range of a live allocation lies in [K, K+S)
InRegion(a) == a.addr.pages >= 0 /\ a.addr.pages + a.size.pages <= RegionPages

\* Two live allocations share a page
Overlap(a, b) ==
    /\ a.addr.pages < b.addr.pages + b.size.pages
    /\ b.addr.pages < a.addr.pages + a.size.pages

\* The live allocations are page-aligned ranges of ceil(size/page) pages
LivePages ==
    \A i \in 1..Len(lkm.live) :
        /\ lkm.live[i].addr.rem = 0
        /\ lkm.live[i].size = usize(CeilPages(lkm.live[i].req), 0)

\* No two live allocations overlap
LiveDisjoint ==
    \A i, j \in 1..Len(lkm.live) : i # j => ~Overlap(lkm.live[i], lkm.live[j])

\* C18: after any sequence of alloc and free calls the live allocations are
\* pairwise non-overlapping page-aligned ranges of ceil(size/page) pages, all
\* inside the reserved region [K, K+S); an alloc that cannot be satisfied
\* inside the region returns None (so whatever alloc returns lies inside).
C18_ArenaRanges ==
    /\ LivePages
    /\ LiveDisjoint
    /\ \A i \in 1..Len(lkm.live) : InRegion(lkm.live[i])
    /\ lkm.res.op = "alloc" => lkm.res.err = "OK"

\* The step drops the k-th VirtualSpace
Drops(k) ==
    /\ lkm'.res.op = "drop"
    /\ k \in 1..Len(lkm.spaces)
    /\ lkm'.spaces = RemoveAt(lkm.spaces, k)

\* Every page of every area of a dropped VirtualSpace is unmapped
DropUnmaps ==
    [][\A k \in 1..MaxAllocs :
           Drops(k) => space_pages(lkm.spaces[k]) \cap lkm'.page_table = {}]_vars

\* C19: when a VirtualSpace is dropped, every page of every area added to it
\* is unmapped and its range [start, start+size) is given back to the arena
\* by a call of free.
C19_DropReleases ==
    [][\A k \in 1..MaxAllocs :
           Drops(k) =>
               /\ space_pages(lkm.spaces[k]) \cap lkm'.page_table = {}
               /\ lkm'.frees = Append(lkm.frees, <<lkm.spaces[k].start, lkm.spaces[k].size>>)]_vars

----------------------------------------------------------------------------
(* Module manager *)

\* The last call was a load that returned success
Loaded == lkm.res.op = "init_module" /\ lkm.res.err = "OK"

\* C20: after init_module returns success for a module, every name listed in
\* its exported_symbols metadata is resolvable through find_symbol_in_deps at
\* an address inside the module's [base, base + image_size).
C20_ExportsResolvable ==
    Loaded =>
        \A i \in 1..Len(lkm.res.image.info.exported_symbols) :
            /\ find_symbol_in_deps(lkm.manager, lkm.res.image.info.exported_symbols[i]).some
            /\ within(lkm.res.val.addr,
                      find_symbol_in_deps(lkm.manager,
                                          lkm.res.image.info.exported_symbols[i]).loc,
                      plus(lkm.res.val.addr, lkm.res.val.size))

\* The step is a call of init_module that returns an error
LoadFails == lkm'.res.op = "init_module" /\ lkm'.res.err \notin {"OK", "panic"}

\* C21: whenever init_module returns an error, the symbol table and the list
\* of loaded modules are as before the call, no page mapped for the module
\* remains mapped, and the entry point of the module was not called.
C21_ErrorLeavesNothing ==
    [][LoadFails =>
           /\ lkm'.manager = lkm.manager
           /\ lkm'.page_table = lkm.page_table
           /\ lkm'.res.val.some =>
                  space_pages(load_vspace(lkm, lkm'.res.image)) \cap lkm'.page_table = {}
           /\ lkm'.spaces = lkm.spaces
           /\ lkm'.entered = lkm.entered]_vars

\* A load has failed after the segments of the module were mapped
C21_Witness ==
    /\ lkm.res.op = "init_module"
    /\ lkm.res.err = "ENOEXEC"
    /\ lkm.res.val.some
    /\ lkm.shootdowns # <<>>

\* Every relocation entry of the image is of a type that is applied, and
\* the symbol of each entry that needs one resolves
Relocatable(self, base, image) ==
    \A i \in 1..Len(reloc_items(image)) :
        /\ reloc_items(image)[i].type \in {"NONE", "SYMBOLIC", "GOT", "PLT", "RELATIVE"}
        /\ reloc_items(image)[i].type \in {"SYMBOLIC", "GOT", "PLT"} =>
               /\ reloc_items(image)[i].sym < Len(image.dynsym)
               /\ get_symbol_loc(self, reloc_items(image)[i].sym, image.dynsym, base).some

\* The load of the image has come to its relocations
Relocated ==
    /\ lkm.res.op = "init_module"
    /\ lkm.res.val.some
    /\ lkm.res.image.has_dynsym /\ lkm.res.image.has_dynamic
    /\ copy_panics(lkm.res.image) = {}

\* C22: a relocation entry writes nothing for NONE, the resolved symbol plus
\* the addend for SYMBOLIC, GOT and PLT, and base plus addend for RELATIVE
\* whatever its symbol index is (index 0 too): a module with a single
\* RELATIVE entry (O, A) is relocated with base + A written at base + O.
C22_RelocationTable ==
    Relocated /\ Relocatable(lkm.manager, lkm.res.val.addr, lkm.res.image) =>
        /\ lkm.res.err # "panic"
        /\ lkm.res.writes = reloc_symbols(lkm.manager, lkm.res.val.addr, lkm.res.image,
                                          Len(reloc_items(lkm.res.image)))

\* A relocation entry of the image refers to a named undefined symbol that
\* neither the kernel nor a loaded module defines
Unresolved(self, base, image) ==
    \E i \in 1..Len(reloc_items(image)) :
        /\ reloc_items(image)[i].sym < Len(image.dynsym)
        /\ image.dynsym[reloc_items(image)[i].sym + 1].shndx = 0
        /\ image.dynsym[reloc_items(image)[i].sym + 1].name # ""
        /\ ~get_symbol_loc(self, reloc_items(image)[i].sym, image.dynsym, base).some

\* C23: a module with a relocation that refers to an undefined symbol absent
\* from the global symbol table is refused with an error: its init_module is
\* not called, it publishes no symbol, its VirtualSpace is released, and the
\* module manager stays usable.
C23_UnresolvedRefused ==
    Relocated /\ Unresolved(lkm.manager, lkm.res.val.addr, lkm.res.image) =>
        /\ lkm.res.err \notin {"OK", "panic"}
        /\ \A i \in 1..Len(lkm.entered) :
               lkm.entered[i] # lkm_entry(module_exports(lkm.res.image, lkm.res.val.addr)).loc
        /\ lkm.manager = ModuleManager
        /\ \A page \in lkm.page_table :
               \/ page < lkm.res.val.addr.pages
               \/ page >= lkm.res.val.addr.pages + lkm.res.val.size.pages
        /\ Running

\* C24: a load that succeeds calls the init_module of the module exactly
\* once, when every entry of the three relocation sections is applied; a load
\* that fails does not call it; an image that exports no init_module is
\* never loaded.
C24_EntryOnce ==
    [][lkm'.res.op = "init_module" =>
           /\ IF lkm'.res.err = "OK"
              THEN /\ lkm_entry(lkm'.res.exported).some
                   /\ lkm'.entered = Append(lkm.entered, lkm_entry(lkm'.res.exported).loc)
                   /\ reloc_panics(lkm.manager, lkm'.res.val.addr, lkm'.res.image) = {}
                   /\ lkm'.res.writes =
                          reloc_symbols(lkm.manager, lkm'.res.val.addr, lkm'.res.image,
                                        Len(lkm'.res.image.jmprel) + Len(lkm'.res.image.rel)
                                            + Len(lkm'.res.image.rela))
              ELSE lkm'.entered = lkm.entered
           /\ (\A i \in 1..Len(lkm'.res.image.info.exported_symbols) :
                   lkm'.res.image.info.exported_symbols[i] # "init_module")
                  => lkm'.res.err # "OK"]_vars

\* The second call of sys_init_module loads a module and enters it once,
\* with the words of its three relocation sections written
C24_Witness ==
    /\ lkm.res.op = "init_module"
    /\ lkm.res.err = "OK"
    /\ Len(lkm.res.writes) = 3
    /\ Len(lkm.entered) = 1
    /\ lkm.calls = 2

\* The addresses the k-th loaded module gives the symbol
Definitions(k, symbol) ==
    {lkm.manager.loaded_modules[k].exported_symbols[i].loc :
         i \in {j \in 1..Len(lkm.manager.loaded_modules[k].exported_symbols) :
                    lkm.manager.loaded_modules[k].exported_symbols[j].name = symbol}}

\* The loaded modules that define the symbol
Definers(symbol) ==
    {k \in 1..Len(lkm.manager.loaded_modules) : Definitions(k, symbol) # {}}

KeyOf(columns) == column_text(columns[1], Len(columns[1]))
ValueOf(columns) == column_text(columns[2], Len(columns[2]))

\* A line of the metadata that is malformed, has an unknown key, an integer
\* that does not parse, or a dependence item that is no name=api_version pair
BadLine(columns) ==
    /\ columns # EmptyLine
    /\ \/ Len(columns) # 2
       \/ KeyOf(columns) \notin {"name", "version", "api_version", "exported_symbols",
                                 "dependence"}
       \/ KeyOf(columns) \in {"version", "api_version"} /\ ~parse_i32(ValueOf(columns)).ok
       \/ /\ KeyOf(columns) = "dependence"
          /\ \E i \in 1..Len(columns[2]) :
                 /\ columns[2][i] # <<"">>
                 /\ Len(columns[2][i]) # 2 \/ ~parse_i32(columns[2][i][2]).ok

\* The image is no 64-bit shared object, or has no or bad metadata
NotModule(image) ==
    \/ ~image.elf \/ image.is32 \/ image.type # "SharedObject"
    \/ ~image.metadata.present
    \/ \E k \in 1..Len(image.metadata.lines) : BadLine(image.metadata.lines[k])

\* C26: init_module returns ENOEXEC, and does not crash, for every image that
\* is no 64-bit ET_DYN ELF, that has no section .rcore-lkm, or whose metadata
\* has a malformed line, an unknown key, a version or api_version that is no
\* integer, or a dependence item that is no name=api_version pair.
C26_NotExec ==
    lkm.res.op = "init_module" /\ NotModule(lkm.res.image) => lkm.res.err = "ENOEXEC"

\* The file sys_openat gave back
Opened == lkm.files[ret.new]

\* C27: the open of an inode that is a character device gives, when the
\* major number of its rdev is registered, a file whose calls go to the
\* operations registered for that major, and fails with NoDevice when it is
\* not registered; the file of any other inode has no driver and its calls go
\* to the inode.
C27_DeviceOpen ==
    ret.op = "open" /\ ret.node # NoNode =>
        IF metadata_type(ret.node) # CharDevice
        THEN ret.err = "OK" /\ Opened.overlay_file_operations = 0
        ELSE IF dev_major(metadata_rdev(ret.node)) \in DOMAIN lkm.dev_map
        THEN /\ ret.err = "OK"
             /\ Opened.overlay_file_operations
                    = lkm.dev_map[dev_major(metadata_rdev(ret.node))].file_op
        ELSE ret.err = "NoDevice"

\* The ModuleGuards alive: those the processors hold, and those being dropped
\* whose decrement is not made yet
LiveGuards == lkm.cpus[1].guards + lkm.cpus[2].guards

\* C28: whatever the order of the steps of concurrent calls of grab and drops
\* of ModuleGuards of one module, the lock of the module is held over each
\* read and write of the use count, and the use count is the number of live
\* guards when no call is under way: above zero while a guard pins the module.
C28_CountIsGuards ==
    /\ \A t \in Cpus : lkm.cpus[t].pc \in {"read", "write"} => lkm.module.lock = t
    /\ (\A t \in Cpus : lkm.cpus[t].pc = "idle") =>
           /\ lkm.module.using_counts = LiveGuards
           /\ LiveGuards > 0 => lkm.module.using_counts > 0

\* The processor waits for a write lock that the processor u holds
WaitsFor(t, u) ==
    /\ lkm.links[t].pc = "write"
    /\ lkm.links[t].got < 2
    /\ Holds(u, lkm.links[t].order[lkm.links[t].got + 1])

\* C29: concurrent calls of link of ramfs never deadlock: distinct inodes
\* have distinct ids, the two locks of a call are taken in ascending order of
\* the ids, so that no processor holds one lock and waits for a lock whose
\* holder waits for the first, and a call that names one inode twice does not
\* wait for itself.
C29_NoDeadlock ==
    /\ \A t \in Cpus : ~WaitsFor(t, t)
    /\ \A t, u \in Cpus : ~(WaitsFor(t, u) /\ WaitsFor(u, t))
    /\ Mounted =>
           \A i, j \in 1..Len(vfs[RamFs].filesystem.inodes) :
               i # j => vfs[RamFs].filesystem.inodes[i].inode
                            # vfs[RamFs].filesystem.inodes[j].inode

\* The init functions of the singletons
SingletonInits ==
    {"memory::init", "VirtualFS::init", "ModuleManager::init", "CDevManager::init",
     "FileSystemManager::init"}

\* C30: a second call of the init of a singleton (memory, the VFS, the module
\* manager, the table of character devices, the registry of file-system
\* types) is fatal: it never goes through and replaces the state that is
\* there, the devices or the file-system types registered.
C30_SecondInitFatal ==
    lkm.res.op \in SingletonInits => lkm.res.err = "panic"

\* The statements of _start the boot processor has completed
Completed(call) == \E i \in 1..lkm.start.at[0].n : StartCalls[i] = call

\* What the boot processor does before it releases the others
BootInits ==
    {"memory::init", "driver::init", "drivers::init", "rcore_fs::init",
     "process::init", "ModuleManager::init", "CDevManager::init",
     "AP_CAN_INIT.store"}

\* An application processor that has left the loop
Released(c) == c # 0 /\ lkm.start.at[c].fn = "other_start"

\* C31: no application processor leaves its loop, runs its per-processor
\* initialisation or enters kmain before the boot processor has completed the
\* memory, driver, file-system, process, module-manager and
\* character-device-table initialisation and has set the release flag; and
\* once the flag is set every application processor in the loop eventually
\* leaves it.
C31_ReleasedAfterBoot ==
    /\ [](\A c \in StartCpus : Released(c) => \A call \in BootInits : Completed(call))
    /\ [](\A c \in StartCpus : c = 0 => lkm.start.at[c].fn \in {"_start", "boot"})
    /\ \A c \in StartCpus \ {0} :
          (lkm.start.AP_CAN_INIT /\ lkm.start.at[c].fn = "spin") ~> Released(c)

\* An application processor is in kmain while another has left the loop and
\* the boot processor is in kmain too
C31_Witness ==
    /\ Released(1) /\ lkm.start.at[1].n = Len(OtherCalls)
    /\ Released(2)
    /\ lkm.start.at[0].n = Len(StartCalls)

\* The call of sys_poll under way or just returned
PollCall == lkm.poll.call

\* The events the closure of sys_poll counts in this state: one for each
\* PollFd and flag it reports
ReadyEvents ==
    Cardinality(
        {<<i, e>> \in (1..Len(PollCall.polls)) \X {"ERR", "HUP", "IN", "OUT"} :
            LET poll == PollCall.polls[i]
            IN  IF poll.fd \notin lkm.poll.files
                THEN e = "ERR"
                ELSE \/ e = "HUP" /\ lkm.poll.status[poll.fd].error
                     \/ e = "IN" /\ lkm.poll.status[poll.fd].read /\ "IN" \in poll.events
                     \/ e = "OUT" /\ lkm.poll.status[poll.fd].write /\ "OUT" \in poll.events})

\* sys_poll has returned Ok(0)
TimedOut == PollCall.state = "returned" /\ PollCall.kind = "Ok" /\ PollCall.val = 0

\* The thread in sys_poll has evaluated the condition: neither the files nor
\* the clock have changed, and the thread has not left the kernel
Evaluated ==
    /\ lkm'.poll.call.state \in {"waiting", "returned"}
    /\ PollCall.state # "returned"
    /\ lkm'.poll.call.kind \in {"Ok", "None"}
    /\ lkm'.poll.files = lkm.poll.files
    /\ lkm'.poll.status = lkm.poll.status
    /\ lkm'.poll.uptime_msec = lkm.poll.uptime_msec

RECURSIVE Listed(_, _)
Listed(fd, k) ==
    IF k = 0 THEN <<>>
    ELSE Listed(fd, k - 1) \o
         (IF lkm.dents[k].fd = fd /\ lkm.dents[k].err = "OK"
          THEN [i \in 1..Len(lkm.dents[k].buf) |-> lkm.dents[k].buf[i].name]
          ELSE <<>>)

\* The entries of the directory behind fd, in order
DirNames(fd) ==
    LET dir == inode_of(lkm.files[fd].inode_container)
    IN  <<".", "..">> \o [i \in 1..Len(dir.children) |-> dir.children[i].name]

\* The records of a call are whole, their lengths are multiples of 8 and they
\* fit the buffer
WholeRecords(d) ==
    /\ d.written_size <= d.buf_size
    /\ \A i \in 1..Len(d.buf) :
          /\ d.buf[i].reclen % 8 = 0
          /\ d.buf[i].reclen >= DirentSize + NameLen(d.buf[i].name) + 1

\* C33: a directory listed by successive calls of sys_getdents64 is returned
\* completely: each call returns whole records whose lengths are multiples of
\* 8 and fit the buffer, and every entry appears in exactly one call; an
\* entry that does not fit the rest of the buffer is returned by the next
\* call and not skipped.  Here: what has been listed so far is the beginning
\* of the directory, with no entry left out.
C33_ListedCompletely ==
    /\ \A k \in 1..Len(lkm.dents) : WholeRecords(lkm.dents[k])
    /\ \A fd \in 1..Len(lkm.files) :
          metadata_type(lkm.files[fd].inode_container) = Dir =>
              LET listed == Listed(fd, Len(lkm.dents))
              IN  /\ Len(listed) <= Len(DirNames(fd))
                  /\ listed = SubSeq(DirNames(fd), 1, Len(listed))

\* The pages of the allocation [base, base + size)
AllocationPages(base, size) == range_of(base, plus(base, size))

\* C34: for every image that is accepted, the range of every Load segment,
\* and every page mapped for it, lies inside the allocation of the
\* VirtualSpace [base, base + size), also when the least virtual address of
\* the segments is not zero: no page outside the allocation is mapped.  The
\* pages mapped during a load are those of the areas of the VirtualSpace: of
\* a space that is alive, or those unmapped again when the space was dropped.
C34_SegmentsInside ==
    /\ \A k \in 1..Len(lkm.spaces) :
          space_pages(lkm.spaces[k])
              \subseteq AllocationPages(lkm.spaces[k].start, lkm.spaces[k].size)
    /\ lkm.res.op = "init_module" /\ lkm.res.val.some =>
          \A i \in 1..Len(lkm.shootdowns) :
              range_of(lkm.shootdowns[i][1], lkm.shootdowns[i][2])
                  \subseteq AllocationPages(lkm.res.val.addr, lkm.res.val.size)

\* init_module has returned Ok(0) for an image
LoadedOk == lkm.res.op = "init_module" /\ lkm.res.err = "OK"

\* C35: after init_module has succeeded the module is recorded in the list
\* of loaded modules and the pages of its VirtualSpace stay mapped: the
\* VirtualSpace is not dropped when the load returns.
C35_ModuleStaysLoaded ==
    LoadedOk =>
        /\ \E k \in 1..Len(lkm.manager.loaded_modules) :
              lkm.manager.loaded_modules[k].exported_symbols = lkm.res.exported
        /\ UNION {area_pages(load_area(lkm.res.image, lkm.res.val.addr, i)) :
                      i \in loads(lkm.res.image)} \subseteq lkm.page_table

\* The directory entries that refer to the inode i of the file system m
EntriesTo(m, i) ==
    {<<f, d, k>> \in (1..Len(vfs)) \X (1..inode_count(Len(vfs))) \X (1..inode_count(Len(vfs))) :
        /\ d <= Len(vfs[f].filesystem.inodes)
        /\ k <= Len(vfs[f].filesystem.inodes[d].children)
        /\ vfs[f].filesystem.inodes[d].children[k].inode = i
        /\ entry_fs(Node(f, d), vfs[f].filesystem.inodes[d].children[k]) = m}

\* C36: in ramfs the nlinks of an inode is the number of directory entries
\* that refer to it, and one more for the root of a mount, after every
\* sequence of create, link, unlink and move_; it is never below zero, and
\* unlink of a file just created does not underflow.
C36_NlinksCountEntries ==
    \A m \in 1..Len(vfs) :
        vfs[m].filesystem.kind = "ramfs" =>
            \A i \in 1..Len(vfs[m].filesystem.inodes) :
                /\ vfs[m].filesystem.inodes[i].nlinks >= 0
                /\ vfs[m].filesystem.inodes[i].nlinks =
                       Cardinality(EntriesTo(m, i)) + (IF i = RootIdx THEN 1 ELSE 0)
                /\ ret.err # "panic"

\* sys_unlinkat has just returned Ok(0) for a path
Unlinked == ret.op = "idle" /\ ret'.op = "unlink" /\ ret'.err = "OK"

\* The children of a directory without the entry called name
RECURSIVE Without(_, _)
Without(children, name) ==
    IF children = <<>> THEN <<>>
    ELSE IF Head(children).name = name THEN Without(Tail(children), name)
    ELSE <<Head(children)>> \o Without(Tail(children), name)

\* C38: sys_unlinkat of a file that is not a directory removes exactly the
\* entry named by the last component of the path and leaves every other
\* entry of every directory as it is, also when the same inode is linked
\* under several names in that directory.
C38_UnlinksNamedEntry ==
    [][Unlinked =>
          \A f \in 1..Len(vfs) : \A d \in 1..Len(vfs[f].filesystem.inodes) :
              vfs'[f].filesystem.inodes[d].children =
                  IF f = ret'.res.parent.fs /\ d = ret'.res.parent.inode
                  THEN Without(vfs[f].filesystem.inodes[d].children, LastPart(ret'.path))
                  ELSE vfs[f].filesystem.inodes[d].children]_vars

\* The handle ids the drivers' open() has given
OpenedIds == {fd + 1 : fd \in Fds}

\* The descriptors that hold a handle of the open() that gave h
DescriptorsOf(h) ==
    {fd \in DOMAIN lkm.proc.files :
        /\ lkm.proc.files[fd].overlay_file_operations # 0
        /\ lkm.proc.files[fd].user_data = h}

\* The calls of close(h)
ClosesOf(h) == {i \in 1..Len(lkm.proc.closed) : lkm.proc.closed[i] = h}

Dup2Returned == lkm'.proc.calls = lkm.proc.calls + 1 /\ lkm'.proc.res.op = "dup2"

\* C39: sys_dup2(fd1, fd2) that fails because fd1 is not open leaves the
\* descriptor table as it was, fd2 stays open; sys_dup2(fd, fd) on an open
\* fd leaves fd open.
C39_Dup2KeepsTable ==
    [][Dup2Returned =>
          /\ lkm'.proc.res.err # "OK" => lkm'.proc.files = lkm.proc.files
          /\ lkm'.proc.res.fd1 = lkm'.proc.res.fd2
               /\ lkm'.proc.res.fd1 \in DOMAIN lkm.proc.files
                 => lkm'.proc.res.fd1 \in DOMAIN lkm'.proc.files]_vars

\* read_at has been called on the inode
ReadDone == lkm.ramfile.res.op = "read_at"

\* C40: read_at of an inode of ramfs that is not a directory, with content of
\* length L, at offset o into a buffer of n bytes returns Ok(min(n, max(L -
\* o, 0))) with that many bytes of the content copied, and does not fail,
\* also when the buffer is longer than what is left of the content, as in
\* the 256-byte read of a symlink.
C40_ReadAtReturnsRest ==
    ReadDone /\ lkm.ramfile.type_ # Dir =>
        LET res == lkm.ramfile.res
            rest == Min(res.buflen, Max(Len(lkm.ramfile.content) - res.offset, 0))
        IN  /\ res.kind = "Ok"
            /\ res.val = rest
            /\ res.buf = SubSeq(lkm.ramfile.content, res.offset + 1, res.offset + rest)

====
